---- MODULE Spec2Model ----
(***************************************************************************)
(* Model of the image-scraper download orchestrator                        *)
(* (service/src/manager.rs, service/src/shutdown.rs), of its               *)
(* content-addressed store (core/src/store.rs) and of its url index        *)
(* (index/src/db.rs).                                                      *)
(*                                                                         *)
(* One worker task (Manager::handle_requests) consumes a bounded tokio     *)
(* mpsc channel of Option<(url, oneshot::Sender)>.  Callers of             *)
(* Manager::request enqueue Some((url, sender)) and await the oneshot      *)
(* receiver; callers of Manager::close enqueue None (the sentinel), lock   *)
(* the join-handle mutex and await the worker.  shutdown::signal selects   *)
(* between Ctrl-C and SIGTERM.                                             *)
(*                                                                         *)
(* Steps are taken at the await points of the code; statements of the      *)
(* worker between recv() returning the sentinel and the end of the task    *)
(* are separate steps because the runtime (#[tokio::main]) is              *)
(* multi-threaded and senders run concurrently with them.  The Manager     *)
(* (and so the channel's sender) lives as long as the process, so recv()   *)
(* never returns None for want of senders.                                 *)
(*                                                                         *)
(* The store is a directory tree: save() is taken at its file system       *)
(* calls (create_dir_all, exists, File::create, write_all), by two         *)
(* callers at a time; the walks of entries() begin once no save is in      *)
(* progress; infer_prefix_part_lengths ends a run.  The index is an        *)
(* ordered map from key bytes to value bytes, written by add() and         *)
(* add_failed() and read by lookup() and iter().                           *)
(*                                                                         *)
(* Spec is the orchestrator and LiveSpec the orchestrator on a runtime     *)
(* that runs every ready task; StoreSpec is the store written by save(),   *)
(* FailSpec the store on a file system whose calls may fail, TreeSpec the  *)
(* walks and the `list` command (cli/src/main.rs) on a store whose tree    *)
(* holds a damaged blob or a file or directory that save() did not make;   *)
(* IndexSpec is the index written by add() and add_failed(), ScanSpec the  *)
(* reads of an index that holds rows of any bytes, TypeSpec the            *)
(* conversions of ImageType (core/src/image_type.rs).  Each leaves the     *)
(* variables of the others at rest.                                        *)
(***************************************************************************)
EXTENDS Integers, Sequences, FiniteSets, TLC

\* ------------------------------------------------------------------ bounds
\* Number of Manager::request calls made during a run.
NumCallers == 2
\* Number of Manager::close calls made directly, one after another (besides
\* the signal task's).
NumDirectCloses == 1
\* request_buffer_size: capacity of the mpsc channel (tokio requires > 0).
Capacity == 2
\* delay, in clock ticks.
Delay == 1

Callers == 1..NumCallers
\* close() call 0 is the one made by shutdown::signal; the others are direct.
SignalClose == 0
Closers == 0..NumDirectCloses
Urls == {"a", "b"}
FirstUrl == "a"
NoUrl == ""
\* ClientResult: Ok(Ok(bytes, action)), Ok(Err(status)), Err(client::Error).
Outcomes == {"Saved", "Status", "Error"}

\* Queue entries: Option<(String, oneshot::Sender<ClientResult>)>.
SomeMsg(u, c) == [kind |-> "Some", url |-> u, sender |-> c]
NoneMsg == [kind |-> "None", url |-> NoUrl, sender |-> 0]
\* What a oneshot channel holds: the result of the fetch of `url` made for
\* request() call `fetchOf` (its outcome is lastOutcome at the time of sending).
NoReply == [url |-> NoUrl, fetchOf |-> 0]
NoOne == -1
NoGap == -1

VARIABLES
    queue,        \* mpsc buffer: Seq of SomeMsg / NoneMsg, head first
    closed,       \* receiver.close() has run (or the receiver was dropped)
    wpc,          \* worker position: recv, fetching, sleeping, draining, closed, stopped
    cur,          \* the request the worker holds (NoneMsg when none)
    slept,        \* ticks elapsed of the current tokio::time::sleep(delay)
    cpc,          \* per request() call: idle, blocked, waiting, done, abandoned
    url,          \* per request() call: the url passed
    reply,        \* per request() call: value sent into its oneshot channel
    txDropped,    \* request() calls whose oneshot sender was dropped unsent
    cres,         \* per request() call: none, Result, SendError, RecvError
    kpc,          \* per close() call: idle, blocked, locking, joining, done
    kres,         \* per close() call: none, Ok, SendError
    mutexHolder,  \* holder of request_receiver_handle's mutex, or NoOne
    handlePresent,\* the Option<JoinHandle> is Some
    sigPc,        \* shutdown::signal: waiting, closing, done, panicked
    sigKind,      \* none, ctrl_c, terminate
    \* history (not read by any guard of the program)
    inFlight,     \* request() calls whose fetch has started and not completed
    enqueued,     \* arrival order into the queue: caller ids, 0 for a sentinel
    dequeued,     \* caller ids in the order recv() handed their requests to the worker
    suspended,    \* request() calls whose send found the buffer full and suspended
    started,      \* caller ids in order of fetch start
    completed,    \* caller ids in order of fetch completion
    delivered,    \* per request() call: number of values put in its oneshot
    sinceEnd,     \* ticks since the last fetch completed (capped at Delay), NoGap if none
    lastGap,      \* sinceEnd as it was when the latest fetch started
    lastOutcome,  \* outcome of the latest completed fetch ("none" before the first)
    closeAfterDone, \* close() calls that began after another close() had returned Ok
    acceptedLate  \* request() calls enqueued after the worker dequeued the sentinel

vars == <<queue, closed, wpc, cur, slept, cpc, url, reply, txDropped, cres,
          kpc, kres, mutexHolder, handlePresent, sigPc, sigKind,
          inFlight, enqueued, started, completed, delivered, sinceEnd, lastGap,
          lastOutcome, closeAfterDone, acceptedLate, dequeued, suspended>>

workerVars == <<wpc, cur, slept>>
callerVars == <<cpc, url, reply, txDropped, cres>>
closeVars == <<kpc, kres, mutexHolder, handlePresent>>
sigVars == <<sigPc, sigKind>>
fetchHist == <<inFlight, dequeued, started, completed, delivered, sinceEnd, lastGap,
               lastOutcome>>

\* ------------------------------------------------------------ the store
\* The variables of the content-addressed store (core/src/store.rs). The
\* orchestrator's specification leaves them at rest, and the store's
\* specification leaves the orchestrator's at rest.
VARIABLES
    requested,      \* the lengths passed to with_prefix_part_lengths
    ctor,           \* its outcome: "Ok", "InvalidPrefixPartLengths", "Panic"
    prefix_part_lengths, \* Store::prefix_part_lengths of the store built
    dirs,           \* the directories under Store::base (paths relative to it)
    files,          \* the regular files under Store::base and their bytes
    spc,            \* position of each save() call in progress
    sbytes,         \* its argument
    sresult,        \* the Action it returned
    calls,          \* number of save() calls begun
    returned,       \* the (bytes, entry) pairs save() has returned
    sawReturned,    \* the call began after a save() of the same bytes returned
    existedAtBegin, \* the derived path existed when the call began
    overlap,        \* calls that ran concurrently with one of the same bytes
    iter,           \* the Entries iterator: its stack and level
    yielded,        \* the items the current entries() run has yielded
    runs,           \* the items of the completed entries() runs
    inferred,       \* what infer_prefix_part_lengths returned, and on what
    validated,      \* what entries().validate() yielded for the items of the run
    listed          \* what the CLI's list command printed, and how it ended

storeVars == <<requested, ctor, prefix_part_lengths, dirs, files, spc, sbytes, sresult,
               calls, returned, sawReturned, existedAtBegin, overlap,
               iter, yielded, runs, inferred, validated, listed>>

\* ------------------------------------------------------------ the index
\* The variables of the url index (index/src/db.rs). The orchestrator's and
\* the store's specifications leave them at rest.
VARIABLES
    idb,            \* Database::db: the rows, a map from key bytes to value bytes
    made,           \* the add() and add_failed() calls made so far
    ncalls,         \* their number
    looked,         \* what the last lookup() or iter() returned, and for what
    codec,          \* what Key::from_bytes returned, and for what bytes
    conv            \* the last conversion of an image type, and what it gave

indexVars == <<idb, made, ncalls, looked, codec, conv>>
allVars == <<vars, storeVars, indexVars>>

\* State after Manager::new: empty channel, worker spawned and awaiting recv().
Init ==
    /\ queue = <<>>
    /\ closed = FALSE
    /\ wpc = "recv"
    /\ cur = NoneMsg
    /\ slept = 0
    /\ cpc = [c \in Callers |-> "idle"]
    /\ url = [c \in Callers |-> NoUrl]
    /\ reply = [c \in Callers |-> NoReply]
    /\ txDropped = {}
    /\ cres = [c \in Callers |-> "none"]
    /\ kpc = [k \in Closers |-> "idle"]
    /\ kres = [k \in Closers |-> "none"]
    /\ mutexHolder = NoOne
    /\ handlePresent = TRUE
    /\ sigPc = "waiting"
    /\ sigKind = "none"
    /\ inFlight = {}
    /\ enqueued = <<>>
    /\ started = <<>>
    /\ completed = <<>>
    /\ delivered = [c \in Callers |-> 0]
    /\ sinceEnd = NoGap
    /\ lastGap = NoGap
    /\ lastOutcome = "none"
    /\ closeAfterDone = {}
    /\ acceptedLate = {}
    /\ dequeued = <<>>
    /\ suspended = {}

\* ------------------------------------------------------ the bounded channel
\* Variant of HasCapacity: an unbounded channel.
HasCapacityUnbounded == TRUE

\* tokio::sync::mpsc::channel(request_buffer_size): a send completes only
\* while fewer than request_buffer_size entries are buffered.
HasCapacity == Len(queue) < Capacity

\* The worker is past the point where recv() returned the sentinel.
SentinelDequeued == wpc \in {"draining", "closed", "stopped"}

\* ------------------------------------------------------- Manager::request
\* request() creates the oneshot channel and returns the future that sends
\* Some((url, sender)) and then awaits the receiver.  The c-th call is made
\* after the (c-1)-th, and the first call's url is named FirstUrl.  On its
\* first poll the send completes (the entry is
\* buffered), fails on a closed channel (ChannelError::Send), or suspends
\* because the buffer is full.
CallRequest(c, u) ==
    /\ cpc[c] = "idle"
    /\ IF c = 1 THEN u = FirstUrl ELSE cpc[c - 1] # "idle"
    /\ url' = [url EXCEPT ![c] = u]
    /\ IF closed
       THEN /\ cpc' = [cpc EXCEPT ![c] = "done"]
            /\ cres' = [cres EXCEPT ![c] = "SendError"]
            /\ UNCHANGED <<queue, enqueued, acceptedLate, suspended>>
       ELSE IF HasCapacity
       THEN /\ cpc' = [cpc EXCEPT ![c] = "waiting"]
            /\ suspended' = suspended
            /\ queue' = Append(queue, SomeMsg(u, c))
            /\ enqueued' = Append(enqueued, c)
            /\ acceptedLate' = IF SentinelDequeued THEN acceptedLate \cup {c}
                               ELSE acceptedLate
            /\ cres' = cres
       ELSE /\ cpc' = [cpc EXCEPT ![c] = "blocked"]
            /\ suspended' = suspended \cup {c}
            /\ UNCHANGED <<queue, enqueued, acceptedLate, cres>>
    /\ UNCHANGED <<closed, workerVars, reply, txDropped, closeVars,
                   sigVars, fetchHist, closeAfterDone>>
    /\ UNCHANGED <<storeVars, indexVars>>

\* A suspended request_sender.send(Some(..)) completes once there is room.
SendRequest(c) ==
    /\ cpc[c] = "blocked"
    /\ ~closed
    /\ HasCapacity
    /\ queue' = Append(queue, SomeMsg(url[c], c))
    /\ cpc' = [cpc EXCEPT ![c] = "waiting"]
    /\ enqueued' = Append(enqueued, c)
    /\ acceptedLate' = IF SentinelDequeued THEN acceptedLate \cup {c} ELSE acceptedLate
    /\ UNCHANGED <<closed, workerVars, url, reply, txDropped, cres, closeVars,
                   sigVars, fetchHist, closeAfterDone, suspended>>
    /\ UNCHANGED <<storeVars, indexVars>>

\* A suspended request_sender.send(Some(..)) fails when the channel is
\* closed: ChannelError::Send.
SendRequestFails(c) ==
    /\ cpc[c] = "blocked"
    /\ closed
    /\ cpc' = [cpc EXCEPT ![c] = "done"]
    /\ cres' = [cres EXCEPT ![c] = "SendError"]
    /\ UNCHANGED <<queue, closed, workerVars, url, reply, txDropped, closeVars,
                   sigVars, fetchHist, enqueued, closeAfterDone, acceptedLate, suspended>>
    /\ UNCHANGED <<storeVars, indexVars>>

\* The oneshot receiver yields the ClientResult the worker sent.
RecvReply(c) ==
    /\ cpc[c] = "waiting"
    /\ reply[c] # NoReply
    /\ cpc' = [cpc EXCEPT ![c] = "done"]
    /\ cres' = [cres EXCEPT ![c] = "Result"]
    /\ UNCHANGED <<queue, closed, workerVars, url, reply, txDropped, closeVars,
                   sigVars, fetchHist, enqueued, closeAfterDone, acceptedLate, suspended>>
    /\ UNCHANGED <<storeVars, indexVars>>

\* The oneshot sender was dropped without a value: ChannelError::Receive.
RecvReplyFails(c) ==
    /\ cpc[c] = "waiting"
    /\ reply[c] = NoReply
    /\ c \in txDropped
    /\ cpc' = [cpc EXCEPT ![c] = "done"]
    /\ cres' = [cres EXCEPT ![c] = "RecvError"]
    /\ UNCHANGED <<queue, closed, workerVars, url, reply, txDropped, closeVars,
                   sigVars, fetchHist, enqueued, closeAfterDone, acceptedLate, suspended>>
    /\ UNCHANGED <<storeVars, indexVars>>

\* The caller drops the future returned by request() (and with it the
\* oneshot receiver) before it resolved.
Abandon(c) ==
    /\ cpc[c] \in {"blocked", "waiting"}
    /\ cpc' = [cpc EXCEPT ![c] = "abandoned"]
    /\ UNCHANGED <<queue, closed, workerVars, url, reply, txDropped, cres, closeVars,
                   sigVars, fetchHist, enqueued, closeAfterDone, acceptedLate, suspended>>
    /\ UNCHANGED <<storeVars, indexVars>>

\* ------------------------------------------------ Manager::handle_requests
\* Variant of WorkerRecvSome: the download is spawned instead of awaited, so
\* the loop returns to recv() at once.
WorkerRecvSomeSpawned ==
    /\ wpc = "recv"
    /\ queue # <<>>
    /\ Head(queue).kind = "Some"
    /\ queue' = Tail(queue)
    /\ inFlight' = inFlight \cup {Head(queue).sender}
    /\ dequeued' = Append(dequeued, Head(queue).sender)
    /\ started' = Append(started, Head(queue).sender)
    /\ lastGap' = sinceEnd
    /\ UNCHANGED <<closed, workerVars, callerVars, closeVars, sigVars, enqueued,
                   completed, delivered, sinceEnd, lastOutcome, closeAfterDone,
                   acceptedLate, suspended>>
    /\ UNCHANGED <<storeVars, indexVars>>

\* Variant of WorkerRecvSome: a request whose url was fetched before is
\* dropped without a fetch.
WorkerRecvSomeDedup ==
    /\ wpc = "recv"
    /\ queue # <<>>
    /\ Head(queue).kind = "Some"
    /\ queue' = Tail(queue)
    /\ dequeued' = Append(dequeued, Head(queue).sender)
    /\ IF \E i \in 1..Len(started) : url[started[i]] = Head(queue).url
       THEN UNCHANGED <<wpc, cur, inFlight, started, lastGap>>
       ELSE /\ cur' = Head(queue)
            /\ wpc' = "fetching"
            /\ inFlight' = inFlight \cup {Head(queue).sender}
            /\ started' = Append(started, Head(queue).sender)
            /\ lastGap' = sinceEnd
    /\ UNCHANGED <<closed, slept, callerVars, closeVars, sigVars, enqueued,
                   completed, delivered, sinceEnd, lastOutcome, closeAfterDone,
                   acceptedLate, suspended>>
    /\ UNCHANGED <<storeVars, indexVars>>

\* Variant of WorkerRecvSome: the newest buffered entry is taken first.
WorkerRecvSomeLifo ==
    /\ wpc = "recv"
    /\ queue # <<>>
    /\ queue[Len(queue)].kind = "Some"
    /\ queue' = SubSeq(queue, 1, Len(queue) - 1)
    /\ cur' = queue[Len(queue)]
    /\ wpc' = "fetching"
    /\ inFlight' = inFlight \cup {queue[Len(queue)].sender}
    /\ dequeued' = Append(dequeued, queue[Len(queue)].sender)
    /\ started' = Append(started, queue[Len(queue)].sender)
    /\ lastGap' = sinceEnd
    /\ UNCHANGED <<closed, slept, callerVars, closeVars, sigVars, enqueued,
                   completed, delivered, sinceEnd, lastOutcome, closeAfterDone,
                   acceptedLate, suspended>>
    /\ UNCHANGED <<storeVars, indexVars>>

\* receiver.recv() returned Some(Some((url, sender))); client.download(&url)
\* is started and awaited.
WorkerRecvSome ==
    /\ wpc = "recv"
    /\ queue # <<>>
    /\ Head(queue).kind = "Some"
    /\ queue' = Tail(queue)
    /\ cur' = Head(queue)
    /\ wpc' = "fetching"
    /\ inFlight' = inFlight \cup {Head(queue).sender}
    /\ dequeued' = Append(dequeued, Head(queue).sender)
    /\ started' = Append(started, Head(queue).sender)
    /\ lastGap' = sinceEnd
    /\ UNCHANGED <<closed, slept, callerVars, closeVars, sigVars, enqueued,
                   completed, delivered, sinceEnd, lastOutcome, closeAfterDone,
                   acceptedLate, suspended>>
    /\ UNCHANGED <<storeVars, indexVars>>

\* The oneshot receiver of request() call c is still held by its future.
ReceiverAlive(c) == cpc[c] \in {"blocked", "waiting"}

\* Variant of SendReply: the value goes to the oldest caller still waiting.
SendReplyToOldest(req) ==
    IF \E c \in Callers : ReceiverAlive(c)
    THEN LET c == CHOOSE x \in Callers :
                      ReceiverAlive(x) /\ \A y \in Callers : ReceiverAlive(y) => x <= y
         IN [reply EXCEPT ![c] = [url |-> req.url, fetchOf |-> req.sender]]
    ELSE reply

\* sender.send(result): the value goes to the channel of the request's own
\* sender, or is handed back (and only logged) when the receiver is gone.
SendReply(req) ==
    IF ReceiverAlive(req.sender)
    THEN [reply EXCEPT ![req.sender] = [url |-> req.url, fetchOf |-> req.sender]]
    ELSE reply

\* Variant of WorkerFetchDone: a reply that cannot be delivered ends the
\* worker loop instead of being logged.
WorkerFetchDoneStopsOnSendError(o) ==
    /\ wpc = "fetching"
    /\ lastOutcome' = o
    /\ reply' = SendReply(cur)
    /\ delivered' = [c \in Callers |->
                        IF reply'[c] # reply[c] THEN delivered[c] + 1 ELSE delivered[c]]
    /\ inFlight' = inFlight \ {cur.sender}
    /\ completed' = Append(completed, cur.sender)
    /\ cur' = NoneMsg
    /\ wpc' = IF ReceiverAlive(cur.sender) THEN "sleeping" ELSE "stopped"
    /\ slept' = 0
    /\ sinceEnd' = 0
    /\ UNCHANGED <<queue, closed, cpc, url, txDropped, cres, closeVars, sigVars,
                   enqueued, dequeued, started, lastGap, closeAfterDone, acceptedLate,
                   suspended>>
    /\ UNCHANGED <<storeVars, indexVars>>

\* client.download(&url) returned with outcome o; the result is sent on the
\* request's oneshot sender and tokio::time::sleep(delay) is started.
WorkerFetchDone(o) ==
    /\ wpc = "fetching"
    /\ lastOutcome' = o
    /\ reply' = SendReply(cur)
    /\ delivered' = [c \in Callers |->
                        IF reply'[c] # reply[c] THEN delivered[c] + 1 ELSE delivered[c]]
    /\ inFlight' = inFlight \ {cur.sender}
    /\ completed' = Append(completed, cur.sender)
    /\ cur' = NoneMsg
    /\ wpc' = "sleeping"
    /\ slept' = 0
    /\ sinceEnd' = 0
    /\ UNCHANGED <<queue, closed, cpc, url, txDropped, cres, closeVars, sigVars,
                   enqueued, dequeued, started, lastGap, closeAfterDone, acceptedLate,
                   suspended>>
    /\ UNCHANGED <<storeVars, indexVars>>

\* Variant of WorkerWake: the loop returns to recv() without sleeping.
WorkerWakeEarly ==
    /\ wpc = "sleeping"
    /\ wpc' = "recv"
    /\ UNCHANGED <<queue, closed, cur, slept, callerVars, closeVars, sigVars,
                   fetchHist, enqueued, closeAfterDone, acceptedLate, suspended>>
    /\ UNCHANGED <<storeVars, indexVars>>

\* tokio::time::sleep(delay) has elapsed; the loop returns to recv().
WorkerWake ==
    /\ wpc = "sleeping"
    /\ slept >= Delay
    /\ wpc' = "recv"
    /\ UNCHANGED <<queue, closed, cur, slept, callerVars, closeVars, sigVars,
                   fetchHist, enqueued, closeAfterDone, acceptedLate, suspended>>
    /\ UNCHANGED <<storeVars, indexVars>>

\* receiver.recv() returned Some(None): the sentinel.
WorkerRecvNone ==
    /\ wpc = "recv"
    /\ queue # <<>>
    /\ Head(queue).kind = "None"
    /\ queue' = Tail(queue)
    /\ wpc' = "draining"
    /\ UNCHANGED <<closed, cur, slept, callerVars, closeVars, sigVars,
                   fetchHist, enqueued, closeAfterDone, acceptedLate, suspended>>
    /\ UNCHANGED <<storeVars, indexVars>>

\* Variant of WorkerCloseReceiver: the channel is left open.
WorkerCloseReceiverSkipped ==
    /\ wpc = "draining"
    /\ wpc' = "closed"
    /\ UNCHANGED <<queue, closed, cur, slept, callerVars, closeVars, sigVars,
                   fetchHist, enqueued, closeAfterDone, acceptedLate, suspended>>
    /\ UNCHANGED <<storeVars, indexVars>>

\* receiver.close(): later sends fail, buffered entries stay.
WorkerCloseReceiver ==
    /\ wpc = "draining"
    /\ closed' = TRUE
    /\ wpc' = "closed"
    /\ UNCHANGED <<queue, cur, slept, callerVars, closeVars, sigVars,
                   fetchHist, enqueued, closeAfterDone, acceptedLate, suspended>>
    /\ UNCHANGED <<storeVars, indexVars>>

\* break: the task ends, the receiver is dropped and with it every buffered
\* entry, so the oneshot senders they hold are dropped unsent.
WorkerExit ==
    /\ wpc = "closed"
    /\ wpc' = "stopped"
    /\ txDropped' = txDropped \cup
           {queue[i].sender : i \in {j \in 1..Len(queue) : queue[j].kind = "Some"}}
    /\ queue' = <<>>
    /\ UNCHANGED <<closed, cur, slept, cpc, url, reply, cres, closeVars, sigVars,
                   fetchHist, enqueued, closeAfterDone, acceptedLate, suspended>>
    /\ UNCHANGED <<storeVars, indexVars>>

\* One unit of time passes (the timers are capped at Delay).
Tick ==
    /\ \/ wpc = "sleeping" /\ slept < Delay
       \/ sinceEnd # NoGap /\ sinceEnd < Delay
    /\ slept' = IF wpc = "sleeping" /\ slept < Delay THEN slept + 1 ELSE slept
    /\ sinceEnd' = IF sinceEnd # NoGap /\ sinceEnd < Delay THEN sinceEnd + 1 ELSE sinceEnd
    /\ UNCHANGED <<queue, closed, wpc, cur, callerVars, closeVars, sigVars,
                   inFlight, enqueued, dequeued, started, completed, delivered, lastGap,
                   lastOutcome, closeAfterDone, acceptedLate, suspended>>
    /\ UNCHANGED <<storeVars, indexVars>>

\* --------------------------------------------------------- Manager::close
\* Variant of BeginClose: the sentinel is put at the head of the buffer.
BeginCloseFront(k) ==
    /\ kpc[k] = "idle"
    /\ closeAfterDone' = IF \E j \in Closers : kpc[j] = "done" /\ kres[j] = "Ok"
                         THEN closeAfterDone \cup {k} ELSE closeAfterDone
    /\ IF closed
       THEN /\ kpc' = [kpc EXCEPT ![k] = "done"]
            /\ kres' = [kres EXCEPT ![k] = "SendError"]
            /\ UNCHANGED <<queue, enqueued>>
       ELSE IF HasCapacity
       THEN /\ kpc' = [kpc EXCEPT ![k] = "locking"]
            /\ queue' = <<NoneMsg>> \o queue
            /\ enqueued' = Append(enqueued, 0)
            /\ kres' = kres
       ELSE /\ kpc' = [kpc EXCEPT ![k] = "blocked"]
            /\ UNCHANGED <<queue, enqueued, kres>>
    /\ UNCHANGED <<mutexHolder, handlePresent>>

\* close() call k begins with request_sender.send(None).await?: the sentinel
\* is buffered, or the send fails on a closed channel and close() returns
\* Err(ShutdownError::Send), or the send suspends because the buffer is full.
BeginClose(k) ==
    /\ kpc[k] = "idle"
    /\ closeAfterDone' = IF \E j \in Closers : kpc[j] = "done" /\ kres[j] = "Ok"
                         THEN closeAfterDone \cup {k} ELSE closeAfterDone
    /\ IF closed
       THEN /\ kpc' = [kpc EXCEPT ![k] = "done"]
            /\ kres' = [kres EXCEPT ![k] = "SendError"]
            /\ UNCHANGED <<queue, enqueued>>
       ELSE IF HasCapacity
       THEN /\ kpc' = [kpc EXCEPT ![k] = "locking"]
            /\ queue' = Append(queue, NoneMsg)
            /\ enqueued' = Append(enqueued, 0)
            /\ kres' = kres
       ELSE /\ kpc' = [kpc EXCEPT ![k] = "blocked"]
            /\ UNCHANGED <<queue, enqueued, kres>>
    /\ UNCHANGED <<mutexHolder, handlePresent>>

\* A direct call of close().  The direct calls are made one after another
\* (the k-th once the (k-1)-th has returned); the signal task's call runs
\* concurrently with them.
CloseCall(k) ==
    /\ k # SignalClose
    /\ IF k = 1 THEN TRUE ELSE kpc[k - 1] = "done"
    /\ BeginClose(k)
    /\ UNCHANGED <<closed, workerVars, callerVars, sigVars, fetchHist, acceptedLate, suspended>>
    /\ UNCHANGED <<storeVars, indexVars>>

\* A suspended request_sender.send(None) completes once there is room.
CloseSend(k) ==
    /\ kpc[k] = "blocked"
    /\ ~closed
    /\ HasCapacity
    /\ queue' = Append(queue, NoneMsg)
    /\ enqueued' = Append(enqueued, 0)
    /\ kpc' = [kpc EXCEPT ![k] = "locking"]
    /\ UNCHANGED <<closed, workerVars, callerVars, kres, mutexHolder, handlePresent,
                   sigVars, fetchHist, closeAfterDone, acceptedLate, suspended>>
    /\ UNCHANGED <<storeVars, indexVars>>

\* A suspended request_sender.send(None) fails when the channel is closed:
\* close() returns Err(ShutdownError::Send).
CloseSendFails(k) ==
    /\ kpc[k] = "blocked"
    /\ closed
    /\ kpc' = [kpc EXCEPT ![k] = "done"]
    /\ kres' = [kres EXCEPT ![k] = "SendError"]
    /\ UNCHANGED <<queue, closed, workerVars, callerVars, mutexHolder, handlePresent,
                   sigVars, fetchHist, enqueued, closeAfterDone, acceptedLate, suspended>>
    /\ UNCHANGED <<storeVars, indexVars>>

\* request_receiver_handle.lock().await, then handle.take(): with Some the
\* join handle is awaited while the lock is held; with None close() returns Ok.
CloseLock(k) ==
    /\ kpc[k] = "locking"
    /\ mutexHolder = NoOne
    /\ IF handlePresent
       THEN /\ handlePresent' = FALSE
            /\ mutexHolder' = k
            /\ kpc' = [kpc EXCEPT ![k] = "joining"]
            /\ kres' = kres
       ELSE /\ kpc' = [kpc EXCEPT ![k] = "done"]
            /\ kres' = [kres EXCEPT ![k] = "Ok"]
            /\ UNCHANGED <<handlePresent, mutexHolder>>
    /\ UNCHANGED <<queue, closed, workerVars, callerVars, sigVars, fetchHist,
                   enqueued, closeAfterDone, acceptedLate, suspended>>
    /\ UNCHANGED <<storeVars, indexVars>>

\* handle.await completes once the worker task has finished; the lock guard
\* is released on return.
CloseJoined(k) ==
    /\ kpc[k] = "joining"
    /\ wpc = "stopped"
    /\ kpc' = [kpc EXCEPT ![k] = "done"]
    /\ kres' = [kres EXCEPT ![k] = "Ok"]
    /\ mutexHolder' = NoOne
    /\ UNCHANGED <<queue, closed, workerVars, callerVars, handlePresent, sigVars,
                   fetchHist, enqueued, closeAfterDone, acceptedLate, suspended>>
    /\ UNCHANGED <<storeVars, indexVars>>

\* -------------------------------------------------------- shutdown::signal
\* The ctrl_c branch of select!: manager.close() is called and awaited.
CtrlC ==
    /\ sigPc = "waiting"
    /\ sigPc' = "closing"
    /\ sigKind' = "ctrl_c"
    /\ BeginClose(SignalClose)
    /\ UNCHANGED <<closed, workerVars, callerVars, fetchHist, acceptedLate, suspended>>
    /\ UNCHANGED <<storeVars, indexVars>>

\* The terminate branch of select!: a log line, and the future completes.
Terminate ==
    /\ sigPc = "waiting"
    /\ sigPc' = "done"
    /\ sigKind' = "terminate"
    /\ UNCHANGED <<queue, closed, workerVars, callerVars, closeVars, fetchHist,
                   enqueued, closeAfterDone, acceptedLate, suspended>>
    /\ UNCHANGED <<storeVars, indexVars>>

\* manager.close().await.expect(..): the future completes on Ok and the
\* task panics on Err.
SignalReturns ==
    /\ sigPc = "closing"
    /\ kpc[SignalClose] = "done"
    /\ sigPc' = IF kres[SignalClose] = "Ok" THEN "done" ELSE "panicked"
    /\ UNCHANGED <<queue, closed, workerVars, callerVars, closeVars, sigKind,
                   fetchHist, enqueued, closeAfterDone, acceptedLate, suspended>>
    /\ UNCHANGED <<storeVars, indexVars>>

Next ==
    \/ \E c \in Callers, u \in Urls : CallRequest(c, u)
    \/ \E c \in Callers : SendRequest(c)
    \/ \E c \in Callers : SendRequestFails(c)
    \/ \E c \in Callers : RecvReply(c)
    \/ \E c \in Callers : RecvReplyFails(c)
    \/ \E c \in Callers : Abandon(c)
    \/ WorkerRecvSome
    \/ \E o \in Outcomes : WorkerFetchDone(o)
    \/ WorkerWake
    \/ WorkerRecvNone
    \/ WorkerCloseReceiver
    \/ WorkerExit
    \/ Tick
    \/ \E k \in Closers : CloseCall(k)
    \/ \E k \in Closers : CloseSend(k)
    \/ \E k \in Closers : CloseSendFails(k)
    \/ \E k \in Closers : CloseLock(k)
    \/ \E k \in Closers : CloseJoined(k)
    \/ CtrlC
    \/ Terminate
    \/ SignalReturns

TypeOK ==
    /\ Len(queue) <= Capacity + NumCallers
    /\ wpc \in {"recv", "fetching", "sleeping", "draining", "closed", "stopped"}
    /\ \A c \in Callers : cpc[c] \in {"idle", "blocked", "waiting", "done", "abandoned"}
    /\ \A k \in Closers : kpc[k] \in {"idle", "blocked", "locking", "joining", "done"}
    /\ sigPc \in {"waiting", "closing", "done", "panicked"}

\* ============================================================ the store
\* core/src/store.rs: Store, Entries
\* --------------------------------------------------------------- bounds
MaxSaves == 3

\* The largest sum of prefix part lengths with_prefix_part_lengths accepts:
\* the number of hex digits of an MD5 digest.
MaxPrefixTotal == 32
\* usize arithmetic, scaled from 2^64 to 2^8: sums wrap at this modulus in
\* a build without overflow checks and panic in a build with them.
UsizeModulus == 256
UsizeMax == UsizeModulus - 1

\* The two callers of save() that may run at the same time.
Savers == {1, 2}

\* --------------------------------------------------------------- digests
HexChars == <<"0", "1", "2", "3", "4", "5", "6", "7",
              "8", "9", "a", "b", "c", "d", "e", "f">>
AsciiDigits == {"0", "1", "2", "3", "4", "5", "6", "7", "8", "9"}
AsciiLowercase == {"a", "b", "c", "d", "e", "f", "g", "h", "i", "j", "k", "l", "m",
                   "n", "o", "p", "q", "r", "s", "t", "u", "v", "w", "x", "y", "z"}
\* The characters of file names in byte order.
Alphabet == <<"0", "1", "2", "3", "4", "5", "6", "7", "8", "9", "D",
              "a", "b", "c", "d", "e", "f", "g", "h", "i", "j", "k", "l", "m",
              "n", "o", "p", "q", "r", "s", "t", "u", "v", "w", "x", "y", "z">>
Ord(ch) == CHOOSE i \in 1..Len(Alphabet) : Alphabet[i] = ch

\* The byte strings of the store's tests: empty_bytes(), text_bytes() and
\* minimal_png_bytes().
EmptyBytes == <<>>
TextBytes == <<102, 111, 111, 32, 98, 97, 114, 32, 98, 97, 122>>
PngBytes == <<137, 80, 78, 71, 13, 10, 26, 10, 0, 0, 0, 13, 73, 72, 68, 82,
              0, 0, 0, 1, 0, 0, 0, 1, 8, 2, 0, 0, 0, 144, 119, 36, 217,
              0, 0, 0, 10, 73, 68, 65, 84, 120, 156, 99, 96, 0, 0, 2, 0, 1,
              133, 209, 20, 9, 0, 0, 0, 0, 73, 69, 78, 68, 174, 66, 96, 130>>
Blobs == {EmptyBytes, TextBytes, PngBytes}

\* md5::compute on those byte strings: the 16 bytes of the digest.
Md5(bytes) ==
    CASE bytes = EmptyBytes ->
             <<212, 29, 140, 217, 143, 0, 178, 4, 233, 128, 9, 152, 236, 248, 66, 126>>
      [] bytes = TextBytes ->
             <<171, 7, 172, 187, 30, 73, 104, 1, 147, 122, 223, 167, 114, 66, 75, 247>>
      [] bytes = PngBytes ->
             <<221, 249, 58, 51, 5, 212, 31, 112, 225, 155, 184, 160, 74, 198, 115, 165>>
Digests == {Md5(b) : b \in Blobs}

\* format!("{digest:x}"): two lowercase hex digits for each byte.
RECURSIVE DigestString(_)
DigestString(digest) ==
    IF digest = <<>> THEN <<>>
    ELSE <<HexChars[(Head(digest) \div 16) + 1], HexChars[(Head(digest) % 16) + 1]>>
             \o DigestString(Tail(digest))

\* The value of one hex digit, as hex::FromHex reads it (-1: not a digit).
HexVal(ch) ==
    IF \E i \in 1..Len(HexChars) : HexChars[i] = ch
    THEN (CHOOSE i \in 1..Len(HexChars) : HexChars[i] = ch) - 1
    ELSE -1
\* <[u8; 16]>::from_hex on a file name: the 16 bytes, or <<>> for an error
\* (odd length, another length than 32, a character that is no hex digit).
FromHex(name) ==
    IF Len(name) # 32 \/ \E i \in 1..Len(name) : HexVal(name[i]) < 0
    THEN <<>>
    ELSE [i \in 1..16 |-> HexVal(name[2 * i - 1]) * 16 + HexVal(name[2 * i])]

\* ---------------------------------------------- with_prefix_part_lengths
\* The prefix part lengths the store is asked to be built with.
PrefixPartLengthsInputs ==
    {<<>>, <<1>>, <<2, 2>>, <<16, 16>>,
     <<0>>, <<2, 0>>, <<33>>, <<17, 16>>, <<UsizeMax, 2>>}

RECURSIVE Sum(_)
Sum(lengths) == IF lengths = <<>> THEN 0 ELSE Head(lengths) + Sum(Tail(lengths))
\* The outcomes of with_prefix_part_lengths(lengths). iter().sum::<usize>()
\* panics on overflow in a build with overflow checks and wraps in one
\* without; the || is evaluated left to right.
WithPrefixPartLengths(lengths) ==
    IF Sum(lengths) > UsizeMax
    THEN {"Panic"} \cup
         (IF (Sum(lengths) % UsizeModulus) > MaxPrefixTotal
                \/ \E i \in 1..Len(lengths) : lengths[i] = 0
          THEN {"InvalidPrefixPartLengths"} ELSE {"Ok"})
    ELSE IF Sum(lengths) > MaxPrefixTotal \/ \E i \in 1..Len(lengths) : lengths[i] = 0
         THEN {"InvalidPrefixPartLengths"} ELSE {"Ok"}

\* ------------------------------------------------------------ Store::path
\* A path under Store::base is the sequence of its components, each a
\* sequence of characters; Store::base itself is the empty path.
Base == <<>>
\* The outcome of a slice out of range.
SlicePanic == <<"panic">>
\* Variant of PathRec: every directory is named by the first characters of
\* the digest string.
RECURSIVE PathRecFromStart(_, _, _, _)
PathRecFromStart(lengths, digest_remaining, path, digest_string) ==
    IF lengths = <<>> THEN Append(path, digest_string)
    ELSE IF Head(lengths) > Len(digest_remaining) THEN SlicePanic
    ELSE PathRecFromStart(Tail(lengths), digest_remaining,
                          Append(path, SubSeq(digest_remaining, 1, Head(lengths))),
                          digest_string)
\* The loop of path(): each prefix part is cut from the front of what
\* remains of the digest string, then the whole string is pushed.
RECURSIVE PathRec(_, _, _, _)
PathRec(lengths, digest_remaining, path, digest_string) ==
    IF lengths = <<>> THEN Append(path, digest_string)
    ELSE IF Head(lengths) > Len(digest_remaining) THEN SlicePanic
    ELSE PathRec(Tail(lengths),
                 SubSeq(digest_remaining, Head(lengths) + 1, Len(digest_remaining)),
                 Append(path, SubSeq(digest_remaining, 1, Head(lengths))),
                 digest_string)
Path(digest) ==
    PathRec(prefix_part_lengths, DigestString(digest), Base, DigestString(digest))

\* ------------------------------------------------------- the file system
\* Variant of Exists: the path of a saved blob is never found.
ExistsNever(path) == FALSE
IsDir(path) == path = Base \/ path \in dirs
IsFile(path) == path \in DOMAIN files
Exists(path) == IsDir(path) \/ IsFile(path)
\* std::fs::read_dir(path), as a set: the order is the file system's.
ReadDir(path) ==
    {q \in dirs \cup DOMAIN files :
        Len(q) = Len(path) + 1 /\ SubSeq(q, 1, Len(path)) = path}
\* The directories create_dir_all(parent) leaves in existence.
Ancestors(path) == {SubSeq(path, 1, n) : n \in 1..(Len(path) - 1)}

NotListed == [called |-> FALSE]
NoResult == [action |-> "none", path |-> Base, digest |-> <<>>]
Active == {"dirs_created", "creating", "writing"}
SaveInProgress(p) == spc[p] \in Active
Quiescent == \A p \in Savers : ~SaveInProgress(p)
\* No entries() run has begun: the saves come first, the walks after.
NotWalked == iter.stack = <<>> /\ runs = <<>> /\ yielded = <<>>
NotInferredYet == ~inferred.called

\* ------------------------------------------------------------ Store::save
\* save(bytes) is called: the digest and the path are computed and
\* create_dir_all(parent) has run. A slice out of range in path() panics.
SaveCall(p, bytes) ==
    /\ ctor = "Ok"
    /\ NotWalked
    /\ NotInferredYet
    /\ calls < MaxSaves
    /\ ~SaveInProgress(p) /\ spc[p] # "panicked"
    /\ IF p = 1 THEN TRUE ELSE spc[p - 1] # "idle"
    /\ calls' = calls + 1
    /\ sbytes' = [sbytes EXCEPT ![p] = bytes]
    /\ sresult' = [sresult EXCEPT ![p] = NoResult]
    /\ LET path == Path(Md5(bytes))
           others == {q \in Savers \ {p} : SaveInProgress(q) /\ sbytes[q] = bytes}
       IN IF path = SlicePanic
          THEN /\ spc' = [spc EXCEPT ![p] = "panicked"]
               /\ UNCHANGED <<dirs, sawReturned, existedAtBegin, overlap>>
          ELSE /\ spc' = [spc EXCEPT ![p] = "dirs_created"]
               /\ dirs' = dirs \cup Ancestors(path)
               /\ sawReturned' = [sawReturned EXCEPT ![p] =
                                     \E r \in returned : r.bytes = bytes]
               /\ existedAtBegin' = [existedAtBegin EXCEPT ![p] = Exists(path)]
               /\ overlap' = IF others = {} THEN overlap \ {p}
                             ELSE overlap \cup others \cup {p}
    /\ UNCHANGED <<requested, ctor, prefix_part_lengths, files, returned,
                   iter, yielded, runs, inferred, validated, listed, vars, indexVars>>

\* if path.exists(): Action::Found is returned; otherwise the call goes on
\* to File::create.
SaveExists(p) ==
    /\ spc[p] = "dirs_created"
    /\ NotInferredYet
    /\ LET digest == Md5(sbytes[p])
           path == Path(digest)
       IN IF Exists(path)
          THEN /\ spc' = [spc EXCEPT ![p] = "done"]
               /\ sresult' = [sresult EXCEPT ![p] =
                                [action |-> "Found", path |-> path, digest |-> digest]]
               /\ returned' = returned \cup
                                {[bytes |-> sbytes[p], path |-> path, digest |-> digest]}
          ELSE /\ spc' = [spc EXCEPT ![p] = "creating"]
               /\ UNCHANGED <<sresult, returned>>
    /\ UNCHANGED <<requested, ctor, prefix_part_lengths, dirs, files, sbytes, calls,
                   sawReturned, existedAtBegin, overlap, iter, yielded, runs,
                   inferred, validated, listed, vars, indexVars>>

\* File::create(&path): the file exists and is empty, whatever it held.
SaveCreate(p) ==
    /\ spc[p] = "creating"
    /\ NotInferredYet
    /\ LET path == Path(Md5(sbytes[p]))
       IN files' = [q \in DOMAIN files \cup {path} |->
                       IF q = path THEN <<>> ELSE files[q]]
    /\ spc' = [spc EXCEPT ![p] = "writing"]
    /\ UNCHANGED <<requested, ctor, prefix_part_lengths, dirs, sbytes, sresult, calls,
                   returned, sawReturned, existedAtBegin, overlap, iter, yielded,
                   runs, inferred, validated, listed, vars, indexVars>>

\* file.write_all(bytes) and the return of Action::Added.
SaveWrite(p) ==
    /\ spc[p] = "writing"
    /\ NotInferredYet
    /\ LET digest == Md5(sbytes[p])
           path == Path(digest)
       IN /\ files' = [files EXCEPT ![path] = sbytes[p]]
          /\ sresult' = [sresult EXCEPT ![p] =
                           [action |-> "Added", path |-> path, digest |-> digest]]
          /\ returned' = returned \cup
                           {[bytes |-> sbytes[p], path |-> path, digest |-> digest]}
    /\ spc' = [spc EXCEPT ![p] = "done"]
    /\ UNCHANGED <<requested, ctor, prefix_part_lengths, dirs, sbytes, calls,
                   sawReturned, existedAtBegin, overlap, iter, yielded, runs,
                   inferred, validated, listed, vars, indexVars>>

\* ------------------------------------------------- Store::save, failing
\* create_dir_all(parent)? returns an I/O error: some of the directories
\* may have been made, and save returns the error.
SaveCreateDirAllFails(p, bytes) ==
    /\ ctor = "Ok"
    /\ NotWalked
    /\ NotInferredYet
    /\ calls < MaxSaves
    /\ ~SaveInProgress(p) /\ spc[p] # "panicked"
    /\ IF p = 1 THEN TRUE ELSE spc[p - 1] # "idle"
    /\ Path(Md5(bytes)) # SlicePanic
    /\ calls' = calls + 1
    /\ sbytes' = [sbytes EXCEPT ![p] = bytes]
    /\ LET path == Path(Md5(bytes))
       IN /\ \E made_dirs \in 0..(Len(path) - 1) :
                 dirs' = dirs \cup {SubSeq(path, 1, n) : n \in 1..made_dirs}
          /\ sresult' = [sresult EXCEPT ![p] =
                           [action |-> "Io", path |-> path, digest |-> Md5(bytes)]]
          /\ sawReturned' = [sawReturned EXCEPT ![p] =
                                \E r \in returned : r.bytes = bytes]
          /\ existedAtBegin' = [existedAtBegin EXCEPT ![p] = Exists(path)]
    /\ spc' = [spc EXCEPT ![p] = "failed"]
    /\ UNCHANGED <<requested, ctor, prefix_part_lengths, files, returned, overlap,
                   iter, yielded, runs, inferred, validated, listed, vars, indexVars>>

\* File::create(&path)? returns an I/O error: no file is made.
SaveCreateFails(p) ==
    /\ spc[p] = "creating"
    /\ NotInferredYet
    /\ sresult' = [sresult EXCEPT ![p] =
                     [action |-> "Io", path |-> Path(Md5(sbytes[p])),
                      digest |-> Md5(sbytes[p])]]
    /\ spc' = [spc EXCEPT ![p] = "failed"]
    /\ UNCHANGED <<requested, ctor, prefix_part_lengths, dirs, files, sbytes, calls,
                   returned, sawReturned, existedAtBegin, overlap, iter, yielded,
                   runs, inferred, validated, listed, vars, indexVars>>

\* file.write_all(bytes)? returns an I/O error: the file that File::create
\* made stays, with none or some of the bytes, and save returns the error.
\* Writing no bytes cannot fail.
SaveWriteFails(p) ==
    /\ spc[p] = "writing"
    /\ sbytes[p] # <<>>
    /\ NotInferredYet
    /\ LET path == Path(Md5(sbytes[p]))
       IN \E written \in {0, Len(sbytes[p]) \div 2} :
              files' = [files EXCEPT ![path] = SubSeq(sbytes[p], 1, written)]
    /\ sresult' = [sresult EXCEPT ![p] =
                     [action |-> "Io", path |-> Path(Md5(sbytes[p])),
                      digest |-> Md5(sbytes[p])]]
    /\ spc' = [spc EXCEPT ![p] = "failed"]
    /\ UNCHANGED <<requested, ctor, prefix_part_lengths, dirs, sbytes, calls,
                   returned, sawReturned, existedAtBegin, overlap, iter, yielded,
                   runs, inferred, validated, listed, vars, indexVars>>

\* ---------------------------------------------------------------- Entries
MaxRuns == 2
\* Option<usize>::None, for Entries::level and a prefix part length.
NoLevel == -1
NoItem == [kind |-> "None", path |-> Base, digest |-> <<>>]
NoIter == [stack |-> <<>>, level |-> NoLevel]

\* The first position at which two sequences differ or one of them ends.
RECURSIVE FirstDifference(_, _, _)
FirstDifference(a, b, i) ==
    IF i > Len(a) THEN i
    ELSE IF i > Len(b) THEN i
    ELSE IF a[i] # b[i] THEN i
    ELSE FirstDifference(a, b, i + 1)
\* The order of file names: byte by byte, a proper prefix first.
NameLess(a, b) ==
    LET i == FirstDifference(a, b, 1)
    IN IF i > Len(a) THEN i <= Len(b)
       ELSE IF i > Len(b) THEN FALSE
       ELSE Ord(a[i]) < Ord(b[i])
\* The order of PathBuf: component by component.
PathLess(p, q) ==
    LET i == FirstDifference(p, q, 1)
    IN IF i > Len(p) THEN i <= Len(q)
       ELSE IF i > Len(q) THEN FALSE
       ELSE NameLess(p[i], q[i])
\* paths.sort()
RECURSIVE Sort(_)
Sort(paths) ==
    IF paths = {} THEN <<>>
    ELSE LET least == CHOOSE x \in paths : \A y \in paths \ {x} : PathLess(x, y)
         IN <<least>> \o Sort(paths \ {least})
\* Variant of Reverse: the sorted paths are left in ascending order.
ReverseSkipped(seq) == seq
\* Variant of Reverse: the reversed paths are appended to the sorted ones.
ReverseAppended(seq) ==
    [i \in 1..(2 * Len(seq)) |-> IF i <= Len(seq) THEN seq[i]
                                 ELSE seq[2 * Len(seq) + 1 - i]]
\* paths.reverse()
Reverse(seq) == [i \in 1..Len(seq) |-> seq[Len(seq) + 1 - i]]

\* Variant of IsLast: the children of the base directory are taken for the
\* files.
IsLastAtTop(level) == level = 0
IsLast(level) == level = Len(prefix_part_lengths)
CurrentPrefixPartLength(level) ==
    IF level # NoLevel /\ level < Len(prefix_part_lengths)
    THEN prefix_part_lengths[level + 1]
    ELSE NoLevel
IncrementLevel(level) == IF level = NoLevel THEN 0 ELSE level + 1
DecrementLevel(level) == IF level # NoLevel /\ level # 0 THEN level - 1 ELSE NoLevel
IsValidChar(ch) == ch \in AsciiLowercase \/ ch \in AsciiDigits
FileName(path) == path[Len(path)]

PathToEntry(path) ==
    IF IsFile(path)
    THEN IF \A i \in 1..Len(FileName(path)) : IsValidChar(FileName(path)[i])
         THEN IF FromHex(FileName(path)) = <<>>
              THEN [kind |-> "Hex", path |-> path, digest |-> <<>>]
              ELSE [kind |-> "Entry", path |-> path, digest |-> FromHex(FileName(path))]
         ELSE [kind |-> "InvalidFileName", path |-> path, digest |-> <<>>]
    ELSE [kind |-> "ExpectedFile", path |-> path, digest |-> <<>>]

\* Does the name check of path_to_paths reject this child?
IsInvalidPath(path, prefix_part_length) ==
    /\ Len(FileName(path)) # prefix_part_length
    /\ \E i \in 1..Len(FileName(path)) : ~IsValidChar(FileName(path)[i])

\* The children of a directory, greatest first, or the error item.
PathToPaths(path, prefix_part_length) ==
    IF IsDir(path)
    THEN LET paths == Reverse(Sort(ReadDir(path)))
             invalid == {i \in 1..Len(paths) : IsInvalidPath(paths[i], prefix_part_length)}
         IN IF prefix_part_length # NoLevel /\ invalid # {}
            THEN [ok |-> FALSE, paths |-> <<>>,
                  item |-> [kind |-> "InvalidFileName",
                            path |-> paths[CHOOSE i \in invalid : \A j \in invalid : i <= j],
                            digest |-> <<>>]]
            ELSE [ok |-> TRUE, paths |-> paths, item |-> NoItem]
    ELSE [ok |-> FALSE, paths |-> <<>>,
          item |-> [kind |-> "ExpectedDirectory", path |-> path, digest |-> <<>>]]

Front(seq) == SubSeq(seq, 1, Len(seq) - 1)
\* Iterator::next: the iterator after the call and the item returned.
RECURSIVE EntriesNextRec(_, _)
EntriesNextRec(stack, level) ==
    IF stack = <<>> THEN [stack |-> stack, level |-> level, item |-> NoItem]
    ELSE LET next_paths == stack[Len(stack)]
             rest == Front(stack)
         IN IF IsLast(level)
            THEN IF next_paths # <<>>
                 THEN [stack |-> Append(rest, Front(next_paths)), level |-> level,
                       item |-> PathToEntry(next_paths[Len(next_paths)])]
                 ELSE EntriesNextRec(rest, DecrementLevel(level))
            ELSE IF next_paths # <<>>
                 THEN LET next_level == PathToPaths(next_paths[Len(next_paths)],
                                                    CurrentPrefixPartLength(level))
                      IN IF next_level.ok
                         THEN EntriesNextRec(
                                  Append(Append(rest, Front(next_paths)), next_level.paths),
                                  IncrementLevel(level))
                         ELSE [stack |-> rest, level |-> level, item |-> next_level.item]
                 ELSE EntriesNextRec(rest, DecrementLevel(level))

Walking == iter.stack # <<>> \/ yielded # <<>>
\* store.entries()
EntriesCall ==
    /\ ctor = "Ok"
    /\ NotInferredYet
    /\ Quiescent
    /\ ~Walking
    /\ Len(runs) < MaxRuns
    /\ iter' = [stack |-> <<(<<Base>>)>>, level |-> NoLevel]
    /\ UNCHANGED <<requested, ctor, prefix_part_lengths, dirs, files, spc, sbytes,
                   sresult, calls, returned, sawReturned, existedAtBegin, overlap,
                   yielded, runs, inferred, validated, listed, vars, indexVars>>

\* One call of next() by the consumer, which goes on until it gets None.
EntriesNext ==
    /\ Walking
    /\ LET r == EntriesNextRec(iter.stack, iter.level)
       IN IF r.item = NoItem
          THEN /\ runs' = Append(runs, yielded)
               /\ yielded' = <<>>
               /\ iter' = NoIter
          ELSE /\ yielded' = Append(yielded, r.item)
               /\ iter' = [stack |-> r.stack, level |-> r.level]
               /\ runs' = runs
    /\ UNCHANGED <<requested, ctor, prefix_part_lengths, dirs, files, spc, sbytes,
                   sresult, calls, returned, sawReturned, existedAtBegin, overlap,
                   inferred, validated, listed, vars, indexVars>>

\* ------------------------------------------- infer_prefix_part_lengths
NotInferred == [called |-> FALSE, some |-> FALSE, lengths |-> <<>>,
                quiescent |-> FALSE, has_file |-> FALSE]
\* Variant of InferRec: the length of the file's name is pushed as well.
RECURSIVE InferRecCountingFile(_, _)
InferRecCountingFile(current, acc) ==
    IF IsFile(current)
    THEN {[is_empty |-> FALSE, acc |-> Append(acc, Len(FileName(current)))]}
    ELSE IF ReadDir(current) = {}
         THEN {[is_empty |-> TRUE, acc |-> Append(acc, Len(FileName(current)))]}
         ELSE UNION {InferRecCountingFile(next, Append(acc, Len(FileName(current)))) :
                        next \in ReadDir(current)}
\* infer_prefix_part_lengths_rec: the possible (is_empty, acc), one for each
\* entry read_dir may give first.
RECURSIVE InferRec(_, _)
InferRec(current, acc) ==
    IF IsFile(current) THEN {[is_empty |-> FALSE, acc |-> acc]}
    ELSE IF ReadDir(current) = {}
         THEN {[is_empty |-> TRUE, acc |-> Append(acc, Len(FileName(current)))]}
         ELSE UNION {InferRec(next, Append(acc, Len(FileName(current)))) :
                        next \in ReadDir(current)}
\* The possible results of infer_prefix_part_lengths(base).
InferOutcomes ==
    IF ReadDir(Base) = {} THEN {[some |-> FALSE, lengths |-> <<>>]}
    ELSE {IF r.is_empty THEN [some |-> FALSE, lengths |-> <<>>]
          ELSE [some |-> TRUE, lengths |-> r.acc] :
             r \in UNION {InferRec(first, <<>>) : first \in ReadDir(Base)}}

\* infer_prefix_part_lengths(base) is called, on a store that no walk has
\* read; it is the last operation of a run.
InferPrefixPartLengths ==
    /\ ~inferred.called
    /\ NotWalked
    /\ \E o \in InferOutcomes :
           inferred' = [called |-> TRUE, some |-> o.some, lengths |-> o.lengths,
                        quiescent |-> Quiescent, has_file |-> DOMAIN files # {}]
    /\ UNCHANGED <<requested, ctor, prefix_part_lengths, dirs, files, spc, sbytes,
                   sresult, calls, returned, sawReturned, existedAtBegin, overlap,
                   iter, yielded, runs, validated, listed, vars, indexVars>>

\* ------------------------------------------------ Entries::validate
\* Variant of EntryValidate: the file's bytes are taken to match its name.
EntryValidateTrusting(entry) == [ok |-> TRUE, actual |-> <<>>]
\* Entry::validate: the digest of the file's bytes against the entry's.
EntryValidate(entry) ==
    LET digest == Md5(files[entry.path])
    IN IF digest = entry.digest
       THEN [ok |-> TRUE, actual |-> <<>>]
       ELSE [ok |-> FALSE, actual |-> digest]
\* The closure of Entries::validate: an error item passes through.
Validate(item) ==
    IF item.kind = "Entry"
    THEN LET r == EntryValidate(item)
         IN IF r.ok
            THEN [kind |-> "Valid", entry |-> item, actual |-> <<>>]
            ELSE [kind |-> "Invalid", entry |-> item, actual |-> r.actual]
    ELSE [kind |-> item.kind, entry |-> item, actual |-> <<>>]

\* One call of next() on entries().validate(), which maps the item that
\* Entries::next returns.
ValidateNext ==
    /\ Walking
    /\ LET r == EntriesNextRec(iter.stack, iter.level)
       IN IF r.item = NoItem
          THEN /\ runs' = Append(runs, yielded)
               /\ yielded' = <<>>
               /\ iter' = NoIter
               /\ validated' = IF yielded = <<>> THEN <<>> ELSE validated
          ELSE /\ yielded' = Append(yielded, r.item)
               /\ iter' = [stack |-> r.stack, level |-> r.level]
               /\ runs' = runs
               /\ validated' = IF yielded = <<>> THEN <<Validate(r.item)>>
                               ELSE Append(validated, Validate(r.item))
    /\ UNCHANGED <<requested, ctor, prefix_part_lengths, dirs, files, spc, sbytes,
                   sresult, calls, returned, sawReturned, existedAtBegin, overlap,
                   inferred, listed, vars, indexVars>>

\* ------------------------------------------------------- cli: list
\* check_prefix_part_lengths(inferred, Some(provided)).
CheckPrefixPartLengths(o, provided) ==
    IF o.some /\ o.lengths # provided
    THEN [ok |-> FALSE, lengths |-> o.lengths]
    ELSE [ok |-> TRUE, lengths |-> provided]
\* One turn of `for entry in store.entries() { entry?; println }`: the
\* path is printed, or the loop ends with the error or at None.
ListEntries(r) ==
    IF r.item = NoItem
    THEN [listed EXCEPT !.exit = "Ok", !.stack = <<>>]
    ELSE IF r.item.kind # "Entry"
    THEN [listed EXCEPT !.exit = r.item.kind, !.stack = <<>>]
    ELSE [listed EXCEPT !.printed = Append(@, r.item.path),
                        !.stack = r.stack, !.level = r.level]
\* One turn of `for entry in store.entries().validate_fail_fast()
\* { entry?; println }`: the bytes of the entry's file are read first.
ListValidateFailFast(r) ==
    IF r.item = NoItem
    THEN [listed EXCEPT !.exit = "Ok", !.stack = <<>>]
    ELSE IF r.item.kind # "Entry"
    THEN [listed EXCEPT !.exit = r.item.kind, !.stack = <<>>]
    ELSE IF Validate(r.item).kind = "Invalid"
    THEN [listed EXCEPT !.exit = "UnexpectedDigest", !.stack = <<>>,
                        !.read = @ \cup {r.item.path}]
    ELSE [listed EXCEPT !.printed = Append(@, r.item.path),
                        !.read = @ \cup {r.item.path},
                        !.stack = r.stack, !.level = r.level]
\* `list --store base --prefix lengths [--validate]`, with the lengths of
\* the store, begins on a store that no walk has read: the lengths are
\* inferred and checked and store.entries() is called. No other operation
\* follows in the run.
ListCall(validate) ==
    /\ ctor = "Ok"
    /\ NotInferredYet
    /\ Quiescent
    /\ NotWalked
    /\ \E o \in InferOutcomes :
           /\ inferred' = [called |-> TRUE, some |-> o.some, lengths |-> o.lengths,
                           quiescent |-> Quiescent, has_file |-> DOMAIN files # {}]
           /\ listed' = IF CheckPrefixPartLengths(o, prefix_part_lengths).ok
                        THEN [called |-> TRUE, validate |-> validate,
                              exit |-> "running", printed |-> <<>>, read |-> {},
                              stack |-> <<(<<Base>>)>>, level |-> NoLevel]
                        ELSE [called |-> TRUE, validate |-> validate,
                              exit |-> "PrefixPartLengthsMismatch",
                              printed |-> <<>>, read |-> {},
                              stack |-> <<>>, level |-> NoLevel]
    /\ UNCHANGED <<requested, ctor, prefix_part_lengths, dirs, files, spc, sbytes,
                   sresult, calls, returned, sawReturned, existedAtBegin, overlap,
                   iter, yielded, runs, validated, vars, indexVars>>
\* One turn of the loop of Command::List, in the branch that `if validate`
\* takes.
ListNext ==
    /\ listed.called
    /\ listed.exit = "running"
    /\ LET r == EntriesNextRec(listed.stack, listed.level)
       IN listed' = IF listed.validate THEN ListEntries(r)
                    ELSE ListValidateFailFast(r)
    /\ UNCHANGED <<requested, ctor, prefix_part_lengths, dirs, files, spc, sbytes,
                   sresult, calls, returned, sawReturned, existedAtBegin, overlap,
                   iter, yielded, runs, inferred, validated, vars, indexVars>>

\* ------------------------------------------------ a store found on disk
\* The base directory as a walk may find it: blobs saved earlier under the
\* store's lengths, at most one of them with its bytes changed since, and
\* at most one file or directory that save() did not put there.
TreeLengths == {<<>>, <<1>>, <<2, 2>>}
ForeignNames == {<<"0">>, <<"D">>, <<"d", "d">>, <<"D", "x">>}
BlobPath(lengths, digest) ==
    PathRec(lengths, DigestString(digest), Base, DigestString(digest))
BlobPaths(lengths, saved) == {BlobPath(lengths, Md5(b)) : b \in saved}
BlobDirs(lengths, saved) == UNION {Ancestors(q) : q \in BlobPaths(lengths, saved)}
Damage(bytes) == IF bytes = EmptyBytes THEN TextBytes ELSE EmptyBytes
NoForeign == [kind |-> "none", path |-> Base]
Foreign(lengths, saved) ==
    {NoForeign} \cup
    {f \in [kind : {"file", "dir"},
            path : {Append(parent, name) :
                       parent \in {Base} \cup BlobDirs(lengths, saved),
                       name \in ForeignNames}] :
        f.path \notin BlobPaths(lengths, saved) \cup BlobDirs(lengths, saved)}

\* ================================================================ index
\* index/src/db.rs: the url index, RocksDB as an ordered map from key bytes
\* to value bytes. A DateTime<Utc> is [hi, lo, sub]: hi * Half + lo whole
\* seconds since the epoch (an i64, so hi may be negative or exceed a
\* half-word) and sub the fraction of a second.
MaxAdds == 3
\* 2^16: a u32 is two half-words, hi and lo.
Half == 65536
Byte == 256
U32Max == [hi |-> Half - 1, lo |-> Half - 1]

\* The urls, as the bytes of their UTF-8 text: "a", "ab" and "a\0".
IndexUrls == {<<97>>, <<97, 98>>, <<97, 0>>}
\* The timestamps: two instants of one second, an instant of 2026, the
\* last second of a u32, the second after it and the second before the epoch.
IndexTimes ==
    {[hi |-> 0, lo |-> 5, sub |-> 0], [hi |-> 0, lo |-> 5, sub |-> 1],
     [hi |-> 27371, lo |-> 1, sub |-> 0], [hi |-> Half - 1, lo |-> Half - 1, sub |-> 0],
     [hi |-> Half, lo |-> 0, sub |-> 0], [hi |-> -1, lo |-> Half - 1, sub |-> 0]}
\* The timestamps of the failures recorded.
FailedTimes == {[hi |-> 0, lo |-> 5, sub |-> 0], [hi |-> 27371, lo |-> 1, sub |-> 0]}
\* imghdr::Type in the order of ImageType::code, which starts at 1.
ImageTypes == <<"Bgp", "Bmp", "Exr", "Flif", "Gif", "Ico", "Jpeg", "Pbm", "Pgm",
                "Png", "Ppm", "Rast", "Rgb", "Rgbe", "Tiff", "Webp", "Xbm">>
NoImageType == "None"
\* The digest and the type of the downloads recorded.
IndexEntries == {[digest |-> Md5(PngBytes), image_type |-> "Png"]}
ERROR_DIGEST == [i \in 1..16 |-> 0]

\* Variant of Code: the known types are numbered from 0.
CodeFromZero(image_type) ==
    IF image_type = NoImageType THEN 0
    ELSE (CHOOSE c \in 1..Len(ImageTypes) : ImageTypes[c] = image_type) - 1
\* ImageType::code and ImageType::from_code ("invalid" for no type).
Code(image_type) ==
    IF image_type = NoImageType THEN 0
    ELSE CHOOSE c \in 1..Len(ImageTypes) : ImageTypes[c] = image_type
FromCode(code) ==
    IF code = 0 THEN NoImageType
    ELSE IF code <= Len(ImageTypes) THEN ImageTypes[code]
    ELSE "invalid"

\* ------------------------------------------------------------ ImageType
\* core/src/image_type.rs: the conversions of an image type, each applied
\* to an input of its own.
AllImageTypes == {NoImageType} \cup {ImageTypes[c] : c \in 1..Len(ImageTypes)}
\* ImageType::as_str: the arms of its match.
AsStrArms ==
    [Bgp |-> "bgp", Bmp |-> "bmp", Exr |-> "exr", Flif |-> "flif", Gif |-> "gif",
     Ico |-> "ico", Jpeg |-> "jpeg", Pbm |-> "pbm", Pgm |-> "pgm", Png |-> "png",
     Ppm |-> "ppm", Rast |-> "rast", Rgb |-> "rgb", Rgbe |-> "rgbe", Tiff |-> "tiff",
     Webp |-> "webp", Xbm |-> "xbm"]
AsStr(image_type) == IF image_type = NoImageType THEN "" ELSE AsStrArms[image_type]
\* ImageType::from_str: the arms of its match.
FromStrArms ==
    [bmp |-> "Bmp", exr |-> "Exr", flif |-> "Flif", gif |-> "Gif", ico |-> "Ico",
     jpeg |-> "Jpeg", pbm |-> "Pbm", pgm |-> "Pgm", png |-> "Png", ppm |-> "Ppm",
     rast |-> "Rast", rgb |-> "Rgb", rgbe |-> "Rgbe", tiff |-> "Tiff", webp |-> "Webp",
     xbm |-> "Xbm"]
FromStr(s) ==
    IF s = "" THEN [ok |-> TRUE, value |-> NoImageType]
    ELSE IF s \in DOMAIN FromStrArms THEN [ok |-> TRUE, value |-> FromStrArms[s]]
    ELSE [ok |-> FALSE, value |-> s]
\* The texts given to from_str: the names as_str gives, and three others.
TypeStrings == {AsStr(t) : t \in AllImageTypes} \cup {"PNG", "jpg", "none"}

NoConv == [op |-> "none"]
\* ImageType::code
EncodeType(image_type) ==
    /\ conv' = [op |-> "code", input |-> image_type, output |-> Code(image_type)]
    /\ UNCHANGED <<idb, made, ncalls, looked, codec, vars, storeVars>>
\* ImageType::from_code on a byte
DecodeType(code) ==
    /\ conv' = [op |-> "from_code", input |-> code, output |-> FromCode(code)]
    /\ UNCHANGED <<idb, made, ncalls, looked, codec, vars, storeVars>>
\* bincode's Encode and then Decode of an ImageType
EncodeDecodeType(image_type) ==
    /\ conv' = [op |-> "bincode", input |-> image_type,
                output |-> FromCode(Code(image_type))]
    /\ UNCHANGED <<idb, made, ncalls, looked, codec, vars, storeVars>>
\* ImageType::as_str, which Display and Serialize write
FormatType(image_type) ==
    /\ conv' = [op |-> "as_str", input |-> image_type, output |-> AsStr(image_type)]
    /\ UNCHANGED <<idb, made, ncalls, looked, codec, vars, storeVars>>
\* ImageType::from_str, which Deserialize calls
ParseType(s) ==
    /\ conv' = [op |-> "from_str", input |-> s, output |-> FromStr(s)]
    /\ UNCHANGED <<idb, made, ncalls, looked, codec, vars, storeVars>>
\* Serialize and then Deserialize of an ImageType
SerializeDeserializeType(image_type) ==
    /\ conv' = [op |-> "serde", input |-> image_type,
                output |-> FromStr(AsStr(image_type))]
    /\ UNCHANGED <<idb, made, ncalls, looked, codec, vars, storeVars>>

\* ------------------------------------------------------------------- Key
\* Variant of ToBeBytes: the least significant byte comes first.
ToLeBytes(u) == <<u.lo % Byte, u.lo \div Byte, u.hi % Byte, u.hi \div Byte>>
\* Variant of U32Seconds: the seconds are reduced modulo 2^32.
U32SecondsWrapping(timestamp) == [hi |-> timestamp.hi % Half, lo |-> timestamp.lo]
\* u32::try_from(self.timestamp.timestamp()).unwrap_or(u32::MAX)
U32Seconds(timestamp) ==
    IF timestamp.hi < 0 \/ timestamp.hi >= Half THEN U32Max
    ELSE [hi |-> timestamp.hi, lo |-> timestamp.lo]
\* u32::to_be_bytes and u32::from_be_bytes
ToBeBytes(u) == <<u.hi \div Byte, u.hi % Byte, u.lo \div Byte, u.lo % Byte>>
FromBeBytes(b) == [hi |-> b[1] * Byte + b[2], lo |-> b[3] * Byte + b[4]]
\* Key::to_bytes
KeyToBytes(u, timestamp) == u \o <<0>> \o ToBeBytes(U32Seconds(timestamp))

\* std::str::from_utf8 on texts of one-byte and two-byte characters (no
\* input holds the lead byte of a longer one).
RECURSIVE IsUtf8(_)
IsUtf8(bytes) ==
    IF bytes = <<>> THEN TRUE
    ELSE IF Head(bytes) < 128 THEN IsUtf8(Tail(bytes))
    ELSE IF Head(bytes) \in 194..223 /\ Len(bytes) >= 2
         THEN IF bytes[2] \in 128..191
              THEN IsUtf8(SubSeq(bytes, 3, Len(bytes)))
              ELSE FALSE
    ELSE FALSE

InvalidKeyBytes(bytes) ==
    [ok |-> FALSE, error |-> "InvalidKeyBytes", url |-> bytes,
     timestamp |-> [hi |-> 0, lo |-> 0, sub |-> 0]]
\* Variant of KeyFromBytes: the url runs up to the timestamp, separator
\* included.
KeyFromBytesKeepingSeparator(bytes) ==
    IF Len(bytes) < 5 THEN InvalidKeyBytes(bytes)
    ELSE [ok |-> TRUE, error |-> "none", url |-> SubSeq(bytes, 1, Len(bytes) - 4),
          timestamp |-> FromBeBytes(SubSeq(bytes, Len(bytes) - 3, Len(bytes)))
                            @@ [sub |-> 0]]
\* Key::from_bytes
KeyFromBytes(bytes) ==
    IF Len(bytes) < 5 THEN InvalidKeyBytes(bytes)
    ELSE LET timestamp_s == FromBeBytes(SubSeq(bytes, Len(bytes) - 3, Len(bytes)))
             u == SubSeq(bytes, 1, Len(bytes) - 5)
         IN IF IsUtf8(u)
            THEN [ok |-> TRUE, error |-> "none", url |-> u,
                  timestamp |-> [hi |-> timestamp_s.hi, lo |-> timestamp_s.lo, sub |-> 0]]
            ELSE InvalidKeyBytes(bytes)

\* ----------------------------------------------------------------- Value
\* bincode, big-endian and fixed-width: the 16 bytes of the digest, then the
\* code of the image type.
ValueToBytes(digest, image_type) == Append(digest, Code(image_type))
ValueError(error) ==
    [ok |-> FALSE, error |-> error, digest |-> <<>>, image_type |-> NoImageType]
\* borrow_decode_from_slice::<Value, _> and the check of the bytes read.
ValueFromBytes(bytes) ==
    IF Len(bytes) < 17 THEN ValueError("Decode")
    ELSE IF FromCode(bytes[17]) = "invalid" THEN ValueError("Decode")
    ELSE IF Len(bytes) # 17 THEN ValueError("ExtraValueBytes")
    ELSE [ok |-> TRUE, error |-> "none", digest |-> SubSeq(bytes, 1, 16),
          image_type |-> FromCode(bytes[17])]

\* Variant of Outcome: every row is taken for a download.
OutcomeAlwaysEntry(timestamp, value) ==
    [kind |-> "Entry", timestamp |-> timestamp, digest |-> value.digest,
     image_type |-> value.image_type]
\* Result<Entry, DateTime<Utc>>: a download, or a failure and its time.
Outcome(timestamp, value) ==
    IF value.image_type # NoImageType
    THEN [kind |-> "Entry", timestamp |-> timestamp, digest |-> value.digest,
          image_type |-> value.image_type]
    ELSE [kind |-> "Failed", timestamp |-> timestamp, digest |-> <<>>,
          image_type |-> NoImageType]

\* -------------------------------------------------------------- RocksDB
\* The order of the keys: byte by byte, a proper prefix first.
KeyLess(a, b) ==
    LET i == FirstDifference(a, b, 1)
    IN IF i > Len(a) THEN i <= Len(b)
       ELSE IF i > Len(b) THEN FALSE
       ELSE a[i] < b[i]
RECURSIVE SortKeys(_)
SortKeys(keys) ==
    IF keys = {} THEN <<>>
    ELSE LET least == CHOOSE x \in keys : \A y \in keys \ {x} : KeyLess(x, y)
         IN <<least>> \o SortKeys(keys \ {least})
\* db.iterator(IteratorMode::From(from, Forward)): the keys at or after from.
IteratorFrom(from) == SortKeys({k \in DOMAIN idb : ~KeyLess(k, from)})
\* db.iterator(IteratorMode::Start)
IteratorStart == SortKeys(DOMAIN idb)
\* db.put(key, value): an existing row of that key is replaced.
Put(key, value) == [k \in DOMAIN idb \cup {key} |-> IF k = key THEN value ELSE idb[k]]

NoLooked == [op |-> "none", url |-> <<>>, ok |-> TRUE, rows |-> <<>>]
NoCodec == [called |-> FALSE, bytes |-> <<>>, key |-> InvalidKeyBytes(<<>>)]
TotalCalls == ncalls[<<97>>] + ncalls[<<97, 98>>] + ncalls[<<97, 0>>]

\* The index after Database::open on a new directory.
IndexAtRest ==
    /\ idb = <<>>
    /\ made = {}
    /\ ncalls = [u \in IndexUrls |-> 0]
    /\ looked = NoLooked
    /\ codec = NoCodec
    /\ conv = NoConv

\* ------------------------------------------------------- Database::add
Add(u, timestamp, entry) ==
    /\ ~codec.called
    /\ TotalCalls < MaxAdds
    /\ idb' = Put(KeyToBytes(u, timestamp),
                  ValueToBytes(entry.digest, entry.image_type))
    /\ made' = made \cup {[url |-> u, kind |-> "Entry", timestamp |-> timestamp,
                           digest |-> entry.digest, image_type |-> entry.image_type]}
    /\ ncalls' = [ncalls EXCEPT ![u] = @ + 1]
    /\ looked' = NoLooked
    /\ UNCHANGED <<codec, conv, vars, storeVars>>

\* Database::add_failed
AddFailed(u, timestamp) ==
    /\ ~codec.called
    /\ TotalCalls < MaxAdds
    /\ idb' = Put(KeyToBytes(u, timestamp), ValueToBytes(ERROR_DIGEST, NoImageType))
    /\ made' = made \cup {[url |-> u, kind |-> "Failed", timestamp |-> timestamp,
                           digest |-> <<>>, image_type |-> NoImageType]}
    /\ ncalls' = [ncalls EXCEPT ![u] = @ + 1]
    /\ looked' = NoLooked
    /\ UNCHANGED <<codec, conv, vars, storeVars>>

\* ---------------------------------------------------- Database::lookup
TimeLess(s, t) ==
    \/ s.hi < t.hi
    \/ s.hi = t.hi /\ s.lo < t.lo
    \/ s.hi = t.hi /\ s.lo = t.lo /\ s.sub < t.sub
\* Variant of SortByKeyReverse: the entries stay in the order of the scan.
SortByKeyReverseSkipped(entries) == entries
\* entries.sort_by_key(|result| Reverse(timestamp)): a stable sort, the
\* latest first.
RECURSIVE SortByKeyReverse(_)
SortByKeyReverse(entries) ==
    IF entries = <<>> THEN <<>>
    ELSE LET i == CHOOSE i \in 1..Len(entries) :
                      /\ \A j \in 1..Len(entries) :
                             ~TimeLess(entries[i].timestamp, entries[j].timestamp)
                      /\ \A j \in 1..(i - 1) :
                             entries[j].timestamp # entries[i].timestamp
         IN <<entries[i]>> \o SortByKeyReverse(
                SubSeq(entries, 1, i - 1) \o SubSeq(entries, i + 1, Len(entries)))

\* The loop of lookup over the rows at or after the bytes of the url.
RECURSIVE LookupRec(_, _, _)
LookupRec(u, keys, entries) ==
    IF keys = <<>> THEN [ok |-> TRUE, rows |-> entries]
    ELSE LET key == KeyFromBytes(Head(keys))
             value == ValueFromBytes(idb[Head(keys)])
         IN IF ~key.ok THEN [ok |-> FALSE, rows |-> <<>>]
            ELSE IF key.url # u THEN [ok |-> TRUE, rows |-> entries]
            ELSE IF ~value.ok THEN [ok |-> FALSE, rows |-> <<>>]
            ELSE LookupRec(u, Tail(keys),
                           Append(entries, Outcome(key.timestamp, value)))

Lookup(u) ==
    /\ ~codec.called
    /\ LET r == LookupRec(u, IteratorFrom(u), <<>>)
       IN looked' = [op |-> "lookup", url |-> u, ok |-> r.ok,
                     rows |-> IF r.ok THEN SortByKeyReverse(r.rows) ELSE <<>>]
    /\ UNCHANGED <<idb, made, ncalls, codec, conv, vars, storeVars>>

\* ------------------------------------------------ Manager::lookup_status
\* find_map over the results: the first of the given kind, or none.
FirstOfKind(seq, kind) ==
    IF \E i \in 1..Len(seq) : seq[i].kind = kind
    THEN <<seq[CHOOSE i \in 1..Len(seq) :
                   seq[i].kind = kind /\ \A j \in 1..(i - 1) : seq[j].kind # kind]>>
    ELSE <<>>
\* ImageStatus, or the error of the index.
StatusOf(r) ==
    IF ~r.ok THEN [kind |-> "Err"]
    ELSE LET results == SortByKeyReverse(r.rows)
         IN IF results = <<>> THEN [kind |-> "Downloading"]
            ELSE IF FirstOfKind(results, "Entry") # <<>>
            THEN [kind |-> "Downloaded", entry |-> FirstOfKind(results, "Entry")[1]]
            ELSE [kind |-> "Failed",
                  timestamp |-> FirstOfKind(results, "Failed")[1].timestamp]
\* lookup_status(image_url)
LookupStatus(u) ==
    /\ ~codec.called
    /\ LET r == LookupRec(u, IteratorFrom(u), <<>>)
       IN looked' = [op |-> "lookup_status", url |-> u, ok |-> r.ok,
                     rows |-> IF r.ok THEN SortByKeyReverse(r.rows) ELSE <<>>,
                     status |-> StatusOf(r)]
    /\ UNCHANGED <<idb, made, ncalls, codec, conv, vars, storeVars>>

\* ------------------------------------------------------ Database::iter
\* The closure of iter: one row decoded, or its error.
IterRow(key_bytes) ==
    LET key == KeyFromBytes(key_bytes)
        value == ValueFromBytes(idb[key_bytes])
    IN IF ~key.ok THEN [ok |-> FALSE, error |-> key.error, url |-> <<>>,
                        outcome |-> Outcome(key.timestamp, ValueError("none"))]
       ELSE IF ~value.ok THEN [ok |-> FALSE, error |-> value.error, url |-> <<>>,
                               outcome |-> Outcome(key.timestamp, ValueError("none"))]
       ELSE [ok |-> TRUE, error |-> "none", url |-> key.url,
             outcome |-> Outcome(key.timestamp, value)]

\* Variant of Iter: the scan ends at the first row that fails to decode.
IterStoppingAtError ==
    /\ ~codec.called
    /\ LET all == [i \in 1..Len(IteratorStart) |-> IterRow(IteratorStart[i])]
           errors == {i \in 1..Len(all) : ~all[i].ok}
           last == IF errors = {} THEN Len(all)
                   ELSE CHOOSE i \in errors : \A j \in errors : i <= j
       IN looked' = [op |-> "iter", url |-> <<>>, ok |-> TRUE,
                     rows |-> SubSeq(all, 1, last)]
    /\ UNCHANGED <<idb, made, ncalls, codec, conv, vars, storeVars>>
\* iter() consumed to its end.
Iter ==
    /\ ~codec.called
    /\ looked' = [op |-> "iter", url |-> <<>>, ok |-> TRUE,
                  rows |-> [i \in 1..Len(IteratorStart) |-> IterRow(IteratorStart[i])]]
    /\ UNCHANGED <<idb, made, ncalls, codec, conv, vars, storeVars>>

\* ------------------------------------------------------ Key::from_bytes
\* Byte strings that no to_bytes has made: too short, of a url that is not
\* UTF-8, of a two-byte character, of a separator that is not zero.
RawKeys == {<<>>, <<97, 0, 0, 0>>, <<0, 0, 0, 0, 5>>, <<255, 0, 0, 0, 0, 5>>,
            <<195, 169, 0, 0, 0, 0, 5>>, <<195, 0, 0, 0, 0, 5>>, <<97, 1, 0, 0, 0, 5>>}
\* Key::from_bytes on the bytes of a row read from a database file.
DecodeKey(bytes) ==
    /\ ~codec.called
    /\ codec' = [called |-> TRUE, bytes |-> bytes, key |-> KeyFromBytes(bytes)]
    /\ UNCHANGED <<idb, made, ncalls, looked, conv, vars, storeVars>>

\* --------------------------------------------- a database found on disk
\* Rows that a database file may hold: rows as add() and add_failed() write
\* them (for "a", "ab" and "a\0"), rows that decode although no call writes
\* them (a digest with the code 0, the zero digest with the code of Png),
\* and rows that do not decode (a key whose url is not UTF-8, a key of four
\* bytes, a value of 16 bytes, a value of 18 bytes, a code that is no type).
MaxRows == 3
PngValue == ValueToBytes(Md5(PngBytes), "Png")
FailedValue == ValueToBytes(ERROR_DIGEST, NoImageType)
RawRows ==
    {[key |-> <<97, 0, 0, 0, 0, 5>>, value |-> PngValue],
     [key |-> <<97, 0, 106, 235, 0, 1>>, value |-> FailedValue],
     [key |-> <<97, 0, 255, 255, 255, 255>>, value |-> ValueToBytes(Md5(TextBytes), "Jpeg")],
     [key |-> <<97, 98, 0, 0, 0, 0, 5>>, value |-> PngValue],
     [key |-> <<97, 0, 0, 106, 235, 0, 1>>, value |-> PngValue],
     [key |-> <<97, 0, 0, 0, 0, 7>>, value |-> ValueToBytes(Md5(TextBytes), NoImageType)],
     [key |-> <<97, 98, 0, 0, 0, 0, 7>>, value |-> ValueToBytes(ERROR_DIGEST, "Png")],
     [key |-> <<255, 0, 0, 0, 0, 5>>, value |-> PngValue],
     [key |-> <<97, 0, 0, 0>>, value |-> PngValue],
     [key |-> <<97, 98, 0, 106, 235, 0, 1>>, value |-> Md5(PngBytes)],
     [key |-> <<97, 98, 0, 255, 255, 255, 255>>, value |-> Append(PngValue, 0)],
     [key |-> <<97, 98, 0, 0, 0, 0, 9>>, value |-> Append(Md5(PngBytes), 200)]}


\* ------------------------------------------------------- specifications
\* The store at rest: nothing built, nothing saved.
StoreAtRest ==
    /\ dirs = {}
    /\ files = <<>>
    /\ spc = [p \in Savers |-> "idle"]
    /\ sbytes = [p \in Savers |-> <<>>]
    /\ sresult = [p \in Savers |-> NoResult]
    /\ calls = 0
    /\ returned = {}
    /\ sawReturned = [p \in Savers |-> FALSE]
    /\ existedAtBegin = [p \in Savers |-> FALSE]
    /\ overlap = {}
    /\ iter = NoIter
    /\ yielded = <<>>
    /\ runs = <<>>
    /\ inferred = NotInferred
    /\ validated = <<>>
    /\ listed = NotListed

\* The download orchestrator after Manager::new, with the store at rest.
OrchInit ==
    /\ Init
    /\ requested = <<>> /\ ctor = "Ok" /\ prefix_part_lengths = <<>>
    /\ StoreAtRest
    /\ IndexAtRest
Spec == OrchInit /\ [][Next]_allVars

\* The steps the runtime takes for the worker task once it can run: the
\* task was spawned on the runtime and each of its awaits wakes it.
WorkerStep ==
    \/ WorkerRecvSome
    \/ \E o \in Outcomes : WorkerFetchDone(o)
    \/ WorkerWake
    \/ WorkerRecvNone
    \/ WorkerCloseReceiver
    \/ WorkerExit
\* The polls of the future of request() call c that its wakers ask for.
CallerStep(c) ==
    \/ SendRequest(c)
    \/ SendRequestFails(c)
    \/ RecvReply(c)
    \/ RecvReplyFails(c)
\* The orchestrator on a runtime that runs every task that is ready, with
\* a clock that advances and fetches that return.
LiveSpec ==
    /\ OrchInit
    /\ [][Next]_allVars
    /\ WF_allVars(WorkerStep)
    /\ WF_allVars(Tick)
    /\ \A c \in Callers : WF_allVars(CallerStep(c))

\* Store::new(base).with_prefix_part_lengths(requested) on an empty base
\* directory, with the orchestrator at rest.
StoreInit ==
    /\ Init
    /\ requested \in PrefixPartLengthsInputs
    /\ ctor \in WithPrefixPartLengths(requested)
    /\ prefix_part_lengths = IF ctor = "Ok" THEN requested ELSE <<>>
    /\ StoreAtRest
    /\ IndexAtRest

StoreNext ==
    \/ \E p \in Savers, bytes \in Blobs : SaveCall(p, bytes)
    \/ \E p \in Savers : SaveExists(p)
    \/ \E p \in Savers : SaveCreate(p)
    \/ \E p \in Savers : SaveWrite(p)
    \/ EntriesCall
    \/ EntriesNext
    \/ InferPrefixPartLengths

StoreSpec == StoreInit /\ [][StoreNext]_allVars

\* Store::new(base).with_prefix_part_lengths(requested) on an empty base
\* directory of a file system whose calls may fail.
FailInit ==
    /\ Init
    /\ requested \in TreeLengths
    /\ ctor = "Ok"
    /\ prefix_part_lengths = requested
    /\ StoreAtRest
    /\ IndexAtRest

FailNext ==
    \/ \E p \in Savers, bytes \in Blobs : SaveCall(p, bytes)
    \/ \E p \in Savers, bytes \in Blobs : SaveCreateDirAllFails(p, bytes)
    \/ \E p \in Savers : SaveExists(p)
    \/ \E p \in Savers : SaveCreate(p)
    \/ \E p \in Savers : SaveCreateFails(p)
    \/ \E p \in Savers : SaveWrite(p)
    \/ \E p \in Savers : SaveWriteFails(p)

FailSpec == FailInit /\ [][FailNext]_allVars

\* Store::new(base).with_prefix_part_lengths(requested) on a base directory
\* that holds a tree already, with the orchestrator and the index at rest.
TreeInit ==
    /\ Init
    /\ IndexAtRest
    /\ requested \in TreeLengths
    /\ ctor = "Ok"
    /\ prefix_part_lengths = requested
    /\ \E saved \in SUBSET Blobs :
       \E damaged \in {{}} \cup {{b} : b \in saved} :
       \E foreign \in Foreign(requested, saved) :
           /\ dirs = BlobDirs(requested, saved)
                        \cup IF foreign.kind = "dir" THEN {foreign.path} ELSE {}
           /\ files = [q \in BlobPaths(requested, saved)
                               \cup IF foreign.kind = "file" THEN {foreign.path} ELSE {}
                         |-> IF \E b \in saved : q = BlobPath(requested, Md5(b))
                             THEN LET b == CHOOSE b \in saved :
                                               q = BlobPath(requested, Md5(b))
                                  IN IF b \in damaged THEN Damage(b) ELSE b
                             ELSE TextBytes]
    /\ spc = [p \in Savers |-> "idle"]
    /\ sbytes = [p \in Savers |-> <<>>]
    /\ sresult = [p \in Savers |-> NoResult]
    /\ calls = 0
    /\ returned = {}
    /\ sawReturned = [p \in Savers |-> FALSE]
    /\ existedAtBegin = [p \in Savers |-> FALSE]
    /\ overlap = {}
    /\ iter = NoIter
    /\ yielded = <<>>
    /\ runs = <<>>
    /\ inferred = NotInferred
    /\ validated = <<>>
    /\ listed = NotListed

TreeNext ==
    \/ EntriesCall
    \/ ValidateNext
    \/ \E validate \in BOOLEAN : ListCall(validate)
    \/ ListNext

TreeSpec == TreeInit /\ [][TreeNext]_allVars

\* Database::open on a directory that holds rows already, with the
\* orchestrator and the store at rest.
ScanInit ==
    /\ Init
    /\ requested = <<>> /\ ctor = "Ok" /\ prefix_part_lengths = <<>>
    /\ StoreAtRest
    /\ \E rows \in {rs \in SUBSET RawRows : Cardinality(rs) <= MaxRows} :
           idb = [k \in {r.key : r \in rows} |->
                     (CHOOSE r \in rows : r.key = k).value]
    /\ made = {}
    /\ ncalls = [u \in IndexUrls |-> 0]
    /\ looked = NoLooked
    /\ codec = NoCodec
    /\ conv = NoConv

ScanNext ==
    \/ \E u \in IndexUrls : Lookup(u)
    \/ \E u \in IndexUrls : LookupStatus(u)
    \/ Iter

ScanSpec == ScanInit /\ [][ScanNext]_allVars

\* The conversions of image types, with everything else at rest.
TypeInit ==
    /\ Init
    /\ requested = <<>> /\ ctor = "Ok" /\ prefix_part_lengths = <<>>
    /\ StoreAtRest
    /\ IndexAtRest

TypeNext ==
    \/ \E t \in AllImageTypes : EncodeType(t)
    \/ \E code \in 0..(Byte - 1) : DecodeType(code)
    \/ \E t \in AllImageTypes : EncodeDecodeType(t)
    \/ \E t \in AllImageTypes : FormatType(t)
    \/ \E s \in TypeStrings : ParseType(s)
    \/ \E t \in AllImageTypes : SerializeDeserializeType(t)

TypeSpec == TypeInit /\ [][TypeNext]_allVars

\* Database::open on a new directory, with the orchestrator and the store at
\* rest.
IndexInit ==
    /\ Init
    /\ requested = <<>> /\ ctor = "Ok" /\ prefix_part_lengths = <<>>
    /\ StoreAtRest
    /\ IndexAtRest

IndexNext ==
    \/ \E u \in IndexUrls, timestamp \in IndexTimes, entry \in IndexEntries :
           Add(u, timestamp, entry)
    \/ \E u \in IndexUrls, timestamp \in FailedTimes : AddFailed(u, timestamp)
    \/ \E u \in IndexUrls : Lookup(u)
    \/ Iter
    \/ \E bytes \in RawKeys : DecodeKey(bytes)

IndexSpec == IndexInit /\ [][IndexNext]_allVars

\* ================================================================ claims
\* The requests (not the sentinels) of an arrival history.
Requests(seq) == SelectSeq(seq, LAMBDA x : x # 0)
IsPrefix(p, q) == Len(p) <= Len(q) /\ SubSeq(q, 1, Len(p)) = p
Range(seq) == {seq[i] : i \in 1..Len(seq)}
\* The requests that arrived in the queue before the first sentinel did.
BeforeSentinel ==
    {enqueued[i] : i \in {j \in 1..Len(enqueued) :
                             \A h \in 1..j : enqueued[h] # 0}}
\* The orchestrator's state as the worker's position gives it.
OrchState ==
    CASE wpc = "stopped" -> "Stopped"
      [] wpc \in {"draining", "closed"} -> "Draining"
      [] OTHER -> "Running"
OrchStep ==
    \/ OrchState' = OrchState
    \/ OrchState = "Running" /\ OrchState' = "Draining"
    \/ OrchState = "Draining" /\ OrchState' = "Stopped"

\* C1: in every reachable state at most one fetch is in flight (started by
\* the worker and not yet completed), whatever the callers do.
C1_AtMostOneFetchInFlight == Cardinality(inFlight) <= 1
\* A fetch is in flight while another request waits in the queue.
C1_Witness ==
    /\ Cardinality(inFlight) = 1
    /\ \E i \in 1..Len(queue) : queue[i].kind = "Some"

\* C2: every request the worker dequeued caused exactly one fetch attempt:
\* the fetches started are the requests dequeued, one each, none twice
\* (no de-duplication by url, no retry after a failure).
C2_OneFetchPerDequeuedRequest ==
    /\ started = dequeued
    /\ \A i, j \in 1..Len(started) : i # j => started[i] # started[j]
\* Two requests for the same url were both fetched, the last fetch failed
\* and the worker is idle again.
C2_Witness ==
    /\ Len(completed) = 2
    /\ url[started[1]] = url[started[2]]
    /\ lastOutcome = "Error"
    /\ wpc = "recv"

\* C3: fetches start in the order of arrival into the queue, and a fetch
\* starts only when every earlier one has completed.
C3_FifoOrder ==
    /\ IsPrefix(started, Requests(enqueued))
    /\ IsPrefix(completed, started)
    /\ Len(completed) >= Len(started) - 1
\* Two requests were fetched one after the other.
C3_Witness == started = <<1, 2>> /\ completed = <<1, 2>>

\* C4: when a fetch other than the first starts, at least the configured
\* delay has passed since the previous fetch completed, whatever that
\* fetch's outcome and whether or not its reply could be delivered.
C4_DelayBetweenFetches == Len(started) >= 2 => lastGap >= Delay
\* The second fetch has started after a first one that failed and whose
\* reply could not be delivered.
C4_Witness ==
    /\ Len(started) = 2
    /\ Cardinality(inFlight) = 1
    /\ lastOutcome = "Error"
    /\ delivered[started[1]] = 0
    /\ lastGap >= Delay

\* C5: a reply channel receives at most one value, and only the result of
\* the fetch made for the request() call that created it; the result of a
\* completed fetch has been put in that channel once, unless the caller had
\* abandoned it.
C5_ReplyToOwnChannelOnce ==
    \A c \in Callers :
        /\ delivered[c] <= 1
        /\ reply[c] # NoReply => reply[c].fetchOf = c /\ reply[c].url = url[c]
        /\ cres[c] = "Result" => delivered[c] = 1 /\ reply[c] # NoReply
        /\ c \in Range(completed) => delivered[c] = 1 \/ cpc[c] = "abandoned"
\* Two callers with different urls have both received their results.
C5_Witness ==
    /\ cres[1] = "Result"
    /\ cres[2] = "Result"
    /\ url[1] # url[2]

\* C6: a close() call made after another close() has completed returns Ok.
C6_SecondCloseReturnsOk ==
    \A k \in closeAfterDone : kpc[k] = "done" => kres[k] = "Ok"

\* C7: when the shutdown future has completed, Manager::close() has been
\* called by it, whichever signal it handled.
C7_SignalTriggersClose == sigPc = "done" => kpc[SignalClose] # "idle"

\* C8: once the worker has dequeued the sentinel, every request that
\* arrived in the queue before the sentinel has been fetched to completion
\* and its reply sent (delivered unless the caller had abandoned it); when
\* the worker has stopped no fetch is left in flight.
C8_DrainedBeforeStop ==
    /\ SentinelDequeued =>
           \A c \in BeforeSentinel :
               /\ c \in Range(completed)
               /\ delivered[c] = 1 \/ cpc[c] = "abandoned"
    /\ wpc = "stopped" => inFlight = {} /\ completed = started
\* The worker has stopped after fetching two requests that were enqueued
\* ahead of the sentinel.
C8_Witness ==
    /\ wpc = "stopped"
    /\ Len(enqueued) >= 3
    /\ enqueued[1] # 0 /\ enqueued[2] # 0 /\ enqueued[3] = 0
    /\ Len(completed) = 2

\* C9 (as claimed): the orchestrator moves Running -> Draining -> Stopped
\* only, and once the worker has dequeued the sentinel no fetch starts and
\* no request is enqueued.
C9_NoAcceptAfterSentinelDequeued ==
    [][/\ OrchStep
       /\ SentinelDequeued =>
              /\ started' = started
              /\ Requests(enqueued') = Requests(enqueued)]_vars

\* C9 (amended): the orchestrator moves Running -> Draining -> Stopped only;
\* once the worker has dequeued the sentinel no fetch starts; once it has
\* run receiver.close(), its next statement, nothing more is enqueued and a
\* request() that comes to its send fails with a send error.
C9_NoAcceptAfterReceiverClosed ==
    [][/\ OrchStep
       /\ SentinelDequeued => started' = started
       /\ wpc \in {"closed", "stopped"} =>
              /\ enqueued' = enqueued
              /\ \A c \in Callers :
                     cpc[c] \in {"idle", "blocked"} /\ cpc'[c] \notin {"idle", "blocked", "abandoned"}
                         => cpc'[c] = "done" /\ cres'[c] = "SendError"]_vars
\* The worker has stopped, one request was enqueued between the dequeue of
\* the sentinel and receiver.close(), and another failed with a send error.
C9_Witness ==
    /\ wpc = "stopped"
    /\ acceptedLate # {}
    /\ \E c \in Callers : cres[c] = "SendError"

\* C10: the queue never holds more than its capacity (requests and
\* sentinels together), and a request() that is suspended has no entry in
\* it.
C10_QueueWithinCapacity ==
    /\ Len(queue) <= Capacity
    /\ \A c \in Callers :
           cpc[c] = "blocked" => c \in suspended /\ c \notin Range(enqueued)
\* A request() that had suspended on a full queue has since been enqueued,
\* and the queue is full again.
C10_Witness ==
    /\ Len(queue) = Capacity
    /\ \E c \in suspended : cpc[c] = "waiting" /\ c \in Range(enqueued)

\* C11: a request whose caller abandoned its reply channel is still fetched
\* to completion; the failed delivery raises no error (only a caller's
\* abandonment leaves a completed fetch undelivered, close() fails only on
\* a closed queue), the worker leaves its loop only by dequeuing a
\* sentinel, the delay is still waited, and later requests get their
\* replies.
C11_AbandonedReplyTolerated ==
    /\ \A c \in Range(started) : c \in inFlight \/ c \in Range(completed)
    /\ \A c \in Range(completed) :
           /\ delivered[c] = 0 => cpc[c] = "abandoned"
           /\ cpc[c] # "abandoned" => delivered[c] = 1
    /\ SentinelDequeued =>
           Cardinality({i \in 1..Len(enqueued) : enqueued[i] = 0})
               > Cardinality({i \in 1..Len(queue) : queue[i].kind = "None"})
    /\ (Len(started) >= 2 /\ delivered[started[Len(started) - 1]] = 0)
           => lastGap >= Delay
    /\ \A k \in Closers : kres[k] = "SendError" => closed
    /\ sigPc = "panicked" => closed
\* The first caller abandoned its request, whose fetch completed without a
\* delivery; the second caller's request was fetched after it and that
\* caller received its result.
C11_Witness ==
    /\ Len(completed) = 2
    /\ cpc[completed[1]] = "abandoned"
    /\ delivered[completed[1]] = 0
    /\ cres[completed[2]] = "Result"
    /\ delivered[completed[2]] = 1

\* A store built with lengths whose true sum is within the digest string.
ValidStore == ctor = "Ok" /\ Sum(prefix_part_lengths) <= MaxPrefixTotal
\* The characters before the k-th prefix part in the digest string.
Offset(k) == Sum(SubSeq(prefix_part_lengths, 1, k - 1))
\* The items of every walk, finished or under way.
Walks == {runs[i] : i \in 1..Len(runs)} \cup {yielded}

\* C12: save is idempotent: a save(b) that begins after a save(b) has
\* returned returns Found; a save(b) that began when b's path did not exist
\* and that ran alone returns Added; all the results for b carry the same
\* digest and the same path.
C12_SaveIdempotent ==
    /\ \A p \in Savers :
           spc[p] = "done" =>
               /\ sawReturned[p] => sresult[p].action = "Found"
               /\ (~existedAtBegin[p] /\ p \notin overlap) => sresult[p].action = "Added"
    /\ \A r1, r2 \in returned : r1.bytes = r2.bytes => r1 = r2
\* Three saves of the text bytes, one after the other: the file is there
\* and the second and the third returned Found.
C12_Witness ==
    /\ calls = 3
    /\ overlap = {}
    /\ \A p \in Savers :
           /\ spc[p] = "done"
           /\ sbytes[p] = TextBytes
           /\ sawReturned[p]
           /\ sresult[p].action = "Found"
    /\ \E path \in DOMAIN files : files[path] = TextBytes

\* C13: of two save() calls with the same bytes that ran at the same time
\* on a store without them, exactly one returned Added and the other
\* Found, and the file then holds those bytes.
C13_ExactlyOneAdded ==
    \A p, q \in Savers :
        (/\ p # q
         /\ spc[p] = "done" /\ spc[q] = "done"
         /\ sbytes[p] = sbytes[q]
         /\ p \in overlap /\ q \in overlap
         /\ ~existedAtBegin[p] /\ ~existedAtBegin[q])
            => /\ {sresult[p].action, sresult[q].action} = {"Added", "Found"}
               /\ files[sresult[p].path] = sbytes[p]

\* C14: whenever a blob's path exists, the file holds complete bytes whose
\* digest is the file's name.
C14_NoPartialFile ==
    \A path \in DOMAIN files : DigestString(Md5(files[path])) = FileName(path)

\* C15: the path of a digest is the base, then one directory for each
\* prefix part, named by the consecutive slices of the digest's 32 hex
\* characters, then the whole hex string as the file name; with the parts
\* [2, 2] the empty bytes are at d4/1d/d41d8cd98f00b204e9800998ecf8427e.
\* The path save() returns is that path, whatever the store holds.
C15_PathDerivation ==
    ValidStore =>
        /\ \A d \in Digests :
               /\ Len(DigestString(d)) = 32
               /\ Len(Path(d)) = Len(prefix_part_lengths) + 1
               /\ Path(d)[Len(Path(d))] = DigestString(d)
               /\ \A k \in 1..Len(prefix_part_lengths) :
                      Path(d)[k] = SubSeq(DigestString(d), Offset(k) + 1,
                                          Offset(k) + prefix_part_lengths[k])
        /\ prefix_part_lengths = <<2, 2>> =>
               Path(Md5(EmptyBytes)) =
                   << <<"d", "4">>, <<"1", "d">>,
                      <<"d", "4", "1", "d", "8", "c", "d", "9", "8", "f", "0", "0",
                        "b", "2", "0", "4", "e", "9", "8", "0", "0", "9", "9", "8",
                        "e", "c", "f", "8", "4", "2", "7", "e">> >>
        /\ \A r \in returned : r.digest = Md5(r.bytes) /\ r.path = Path(r.digest)
        /\ \A path \in DOMAIN files : \E d \in Digests : path = Path(d)
\* With the parts [2, 2] the empty bytes were added under d4/1d.
C15_Witness ==
    /\ prefix_part_lengths = <<2, 2>>
    /\ \E p \in Savers :
           /\ sresult[p].action = "Added"
           /\ sbytes[p] = EmptyBytes
           /\ SubSeq(sresult[p].path, 1, 2) = << <<"d", "4">>, <<"1", "d">> >>
           /\ sresult[p].path \in DOMAIN files

\* C16: with_prefix_part_lengths returns InvalidPrefixPartLengths exactly
\* when the lengths sum to more than 32 or contain a zero, and builds the
\* store otherwise; in a store it built, path() and save() never slice out
\* of range.
C16_PrefixPartLengthsValidated ==
    /\ ctor = "InvalidPrefixPartLengths"
           <=> (Sum(requested) > MaxPrefixTotal
                   \/ \E i \in 1..Len(requested) : requested[i] = 0)
    /\ ctor # "InvalidPrefixPartLengths" => ctor = "Ok"
    /\ ctor = "Ok" =>
           /\ prefix_part_lengths = requested
           /\ \A d \in Digests : Path(d) # SlicePanic
           /\ \A p \in Savers : spc[p] # "panicked"

C18_NoneIffNoFile ==
    inferred.called => (inferred.some <=> inferred.has_file)

\* C19: on a store written by save() alone, entries() yields the entries in
\* strictly ascending order of the digests' hex strings, and another run
\* on the unchanged store yields the same sequence.
C19_AscendingDigestOrder ==
    /\ \A walk \in Walks :
           \A i, j \in 1..Len(walk) :
               i < j => /\ walk[i].kind = "Entry" /\ walk[j].kind = "Entry"
                        /\ NameLess(DigestString(walk[i].digest),
                                    DigestString(walk[j].digest))
    /\ \A i, j \in 1..Len(runs) : runs[i] = runs[j]
\* Two runs over the three blobs under [1]: two of the blobs share the
\* directory d.
C19_Witness ==
    /\ prefix_part_lengths = <<1>>
    /\ Len(runs) = 2
    /\ Len(runs[1]) = 3 /\ Len(runs[2]) = 3
    /\ runs[1][1].digest = Md5(TextBytes)
    /\ runs[1][2].digest = Md5(EmptyBytes)
    /\ runs[1][3].digest = Md5(PngBytes)

\* C20: after successful save() calls on an empty store under fixed valid
\* prefix part lengths, entries() yields no error and one entry for each
\* distinct digest saved, no more and none twice, each with the path that
\* path() gives its digest.
C20_EntriesAreTheSavedDigests ==
    ValidStore =>
        /\ \A walk \in Walks :
               \A i \in 1..Len(walk) :
                   /\ walk[i].kind = "Entry"
                   /\ walk[i].path = Path(walk[i].digest)
                   /\ \E r \in returned : r.digest = walk[i].digest
                   /\ \A j \in 1..Len(walk) : walk[j].digest = walk[i].digest => j = i
        /\ \A n \in 1..Len(runs) :
               {runs[n][i].digest : i \in 1..Len(runs[n])} = {r.digest : r \in returned}
\* Three saves of two distinct byte strings under [2, 2], then a walk that
\* yielded two entries.
C20_Witness ==
    /\ prefix_part_lengths = <<2, 2>>
    /\ calls = 3
    /\ Cardinality(returned) = 2
    /\ Len(runs) >= 1
    /\ Len(runs[1]) = 2

\* The files and directories k levels below the base directory.
AtDepth(k) == {c \in dirs \cup DOMAIN files : Len(c) = k}
\* A name that is not prefix_part_lengths[k] lowercase hex characters.
MalformedShardName(name, k) ==
    \/ Len(name) # prefix_part_lengths[k]
    \/ \E i \in 1..Len(name) : name[i] \notin Range(HexChars)
\* A regular file whose name is the lowercase hex text of 16 bytes.
IsBlobFile(c) == IsFile(c) /\ FromHex(FileName(c)) # <<>>
IsError(item) == item.kind \notin {"Entry", "None"}

\* C21: in every walk that ran to its end, each child at a directory level
\* k below the shard depth whose name is not exactly prefix_part_lengths[k]
\* characters long, or holds a character outside the lowercase hex
\* alphabet, has produced an InvalidFileName item that names its path.
C21_MalformedShardNameReported ==
    \A r \in 1..Len(runs) :
        \A k \in 1..Len(prefix_part_lengths) :
            \A c \in AtDepth(k) :
                MalformedShardName(FileName(c), k) =>
                    \E i \in 1..Len(runs[r]) :
                        /\ runs[r][i].kind = "InvalidFileName"
                        /\ runs[r][i].path = c

\* C22: in every walk that ran to its end, each child at the final level
\* that is a regular file named by the lowercase hex text of 16 bytes has
\* produced an entry with that digest, and every other child at that level
\* has produced ExpectedFile, InvalidFileName or Hex for its path.
C22_FinalLevelClassified ==
    \A r \in 1..Len(runs) :
        \A c \in AtDepth(Len(prefix_part_lengths) + 1) :
            \E i \in 1..Len(runs[r]) :
                /\ runs[r][i].path = c
                /\ IF IsBlobFile(c)
                   THEN /\ runs[r][i].kind = "Entry"
                        /\ runs[r][i].digest = FromHex(FileName(c))
                   ELSE runs[r][i].kind \in {"ExpectedFile", "InvalidFileName", "Hex"}

\* C23: a walk that ran to its end and yielded an error item has also
\* yielded an entry for every blob that lies at the path of its digest.
C23_ErrorsNotFatal ==
    \A r \in 1..Len(runs) :
        (\E i \in 1..Len(runs[r]) : IsError(runs[r][i])) =>
            \A d \in Digests :
                IsFile(Path(d)) =>
                    \E i \in 1..Len(runs[r]) :
                        /\ runs[r][i].kind = "Entry"
                        /\ runs[r][i].path = Path(d)
                        /\ runs[r][i].digest = d

\* The items of Entries::next that the items of validate() were mapped from.
Inner == IF yielded # <<>> THEN yielded
         ELSE IF runs # <<>> THEN runs[Len(runs)]
         ELSE <<>>
\* C24: validate() maps every item of the walk: an entry is Valid exactly
\* when the digest of its file's bytes equals the digest of its name, and
\* otherwise Invalid with that other digest as actual; an error item stays
\* the error it was; the items after an Invalid one are still yielded.
C24_ValidateClassifies ==
    /\ Len(validated) = Len(Inner)
    /\ \A i \in 1..Len(validated) :
           /\ validated[i].entry = Inner[i]
           /\ IF Inner[i].kind = "Entry"
              THEN /\ validated[i].kind \in {"Valid", "Invalid"}
                   /\ validated[i].kind = "Valid"
                          <=> Md5(files[Inner[i].path]) = Inner[i].digest
                   /\ validated[i].kind = "Invalid" =>
                          /\ validated[i].actual = Md5(files[Inner[i].path])
                          /\ validated[i].actual # Inner[i].digest
              ELSE validated[i].kind = Inner[i].kind
\* A walk under [2, 2] has yielded an Invalid item and a Valid one after it.
C24_Witness ==
    /\ prefix_part_lengths = <<2, 2>>
    /\ \E i \in 1..Len(validated) :
           /\ validated[i].kind = "Invalid"
           /\ \E j \in (i + 1)..Len(validated) : validated[j].kind = "Valid"

\* The value bytes that a call of add() or add_failed() wrote.
ValueOf(c) ==
    IF c.kind = "Entry" THEN ValueToBytes(c.digest, c.image_type)
    ELSE ValueToBytes(ERROR_DIGEST, NoImageType)
\* The keys of the rows stored under a url, as Key::from_bytes reads them.
KeysOf(u) == {k \in DOMAIN idb : KeyFromBytes(k).ok /\ KeyFromBytes(k).url = u}
\* The row of a key as lookup() and iter() report it.
RowOf(k) == Outcome(KeyFromBytes(k).timestamp, ValueFromBytes(idb[k]))
HasNul(u) == \E i \in 1..Len(u) : u[i] = 0

\* C25: the index is append-only: the row of every add() and add_failed()
\* call made so far is present with the outcome that call wrote, and
\* lookup(url) returns as many rows as calls were made for the url.
C25_AppendOnly ==
    /\ \A c \in made :
           /\ KeyToBytes(c.url, c.timestamp) \in DOMAIN idb
           /\ idb[KeyToBytes(c.url, c.timestamp)] = ValueOf(c)
    /\ looked.op = "lookup" =>
           /\ looked.ok
           /\ Len(looked.rows) = ncalls[looked.url]

\* C26: lookup(url) succeeds and returns the rows stored under url, all of
\* them and nothing else.
C26_LookupExact ==
    looked.op = "lookup" =>
        /\ looked.ok
        /\ Len(looked.rows) = Cardinality(KeysOf(looked.url))
        /\ Range(looked.rows) = {RowOf(k) : k \in KeysOf(looked.url)}

\* C27: the rows lookup(url) returns are in strictly descending order of
\* timestamp: each row is earlier than the one before it.
C27_LookupDescending ==
    looked.op = "lookup" =>
        \A i \in 1..Len(looked.rows) :
            \A j \in (i + 1)..Len(looked.rows) :
                TimeLess(looked.rows[j].timestamp, looked.rows[i].timestamp)
\* lookup("a") returned three rows with three timestamps.
C27_Witness ==
    /\ looked.op = "lookup"
    /\ looked.url = <<97>>
    /\ Len(looked.rows) = 3

\* C28: when no url stored holds a NUL byte, iter() yields the rows of each
\* url next to each other, in ascending order of timestamp within the url,
\* and each row is the url, the second (clamped to a u32) and the outcome
\* of a call that was made.
C28_IterGroupsByUrl ==
    (looked.op = "iter" /\ \A c \in made : ~HasNul(c.url)) =>
        /\ Len(looked.rows) = Cardinality(DOMAIN idb)
        /\ \A i \in 1..Len(looked.rows) :
               /\ looked.rows[i].ok
               /\ \E c \in made :
                      /\ c.url = looked.rows[i].url
                      /\ c.kind = looked.rows[i].outcome.kind
                      /\ U32Seconds(c.timestamp).hi = looked.rows[i].outcome.timestamp.hi
                      /\ U32Seconds(c.timestamp).lo = looked.rows[i].outcome.timestamp.lo
               /\ \A j \in (i + 1)..Len(looked.rows) :
                      IF looked.rows[j].url = looked.rows[i].url
                      THEN /\ TimeLess(looked.rows[i].outcome.timestamp,
                                       looked.rows[j].outcome.timestamp)
                           /\ \A h \in (i + 1)..(j - 1) :
                                  looked.rows[h].url = looked.rows[i].url
                      ELSE TRUE
\* iter() yielded two rows of "a" and then a row of "ab".
C28_Witness ==
    /\ looked.op = "iter"
    /\ Len(looked.rows) = 3
    /\ looked.rows[1].url = <<97>>
    /\ looked.rows[2].url = <<97>>
    /\ looked.rows[3].url = <<97, 98>>
    /\ \A c \in made : ~HasNul(c.url)

\* C29: the key of every call made is the url's bytes, a zero byte and the
\* four big-endian bytes of the second; from_bytes gives back the url and
\* the timestamp of a call whose timestamp is a whole second in
\* [0, 2^32 - 1]; from_bytes answers InvalidKeyBytes to fewer than five
\* bytes and to a url part that is not UTF-8.
C29_KeyCodec ==
    /\ \A c \in made :
           LET k == KeyToBytes(c.url, c.timestamp)
               n == Len(c.url)
               whole == c.timestamp.hi \in 0..(Half - 1) /\ c.timestamp.sub = 0
           IN /\ k \in DOMAIN idb
              /\ Len(k) = n + 5
              /\ SubSeq(k, 1, n) = c.url
              /\ k[n + 1] = 0
              /\ \A i \in (n + 2)..(n + 5) : k[i] \in 0..(Byte - 1)
              /\ whole =>
                     /\ k[n + 2] * Byte + k[n + 3] = c.timestamp.hi
                     /\ k[n + 4] * Byte + k[n + 5] = c.timestamp.lo
                     /\ KeyFromBytes(k).ok
                     /\ KeyFromBytes(k).url = c.url
                     /\ KeyFromBytes(k).timestamp = c.timestamp
    /\ codec.called =>
           IF Len(codec.bytes) < 5
           THEN ~codec.key.ok /\ codec.key.error = "InvalidKeyBytes"
           ELSE IF ~IsUtf8(SubSeq(codec.bytes, 1, Len(codec.bytes) - 5))
           THEN ~codec.key.ok /\ codec.key.error = "InvalidKeyBytes"
           ELSE codec.key.ok
\* Rows were written for "a\0" at the last second of a u32 and for "ab" in
\* 2026, and from_bytes has then rejected a key whose url part is not UTF-8.
C29_Witness ==
    /\ \E c \in made : c.url = <<97, 0>> /\ c.timestamp.hi = Half - 1
    /\ \E c \in made : c.url = <<97, 98>> /\ c.timestamp.hi = 27371
    /\ codec.called
    /\ codec.bytes = <<255, 0, 0, 0, 0, 5>>
    /\ ~codec.key.ok

\* C30: a call whose epoch second does not fit a u32 has written its row
\* under the key that ends in the four bytes of 2^32 - 1.
C30_SecondsSaturate ==
    \A c \in made :
        (c.timestamp.hi < 0 \/ c.timestamp.hi >= Half) =>
            /\ c.url \o <<0, Byte - 1, Byte - 1, Byte - 1, Byte - 1>> \in DOMAIN idb
            /\ idb[c.url \o <<0, Byte - 1, Byte - 1, Byte - 1, Byte - 1>>] = ValueOf(c)
\* A row was written for the second 2^32 and nothing else was.
C30_Witness ==
    /\ \E c \in made : c.timestamp.hi = Half
    /\ Cardinality(DOMAIN idb) = 1
    /\ ncalls[<<97>>] = 1

\* C34: code() gives 0 to the unknown type alone and a code of 1..17 to a
\* known type, no two types sharing a code; from_code after code gives the
\* type back; from_code gives no type to a code above 17.
C34_CodesAreBijective ==
    /\ conv.op = "code" =>
           /\ conv.output = 0 <=> conv.input = NoImageType
           /\ conv.input # NoImageType => conv.output \in 1..17
           /\ \A t \in AllImageTypes \ {conv.input} : Code(t) # conv.output
    /\ conv.op = "bincode" => conv.output = conv.input
    /\ conv.op = "from_code" =>
           /\ conv.input > 17 => conv.output = "invalid"
           /\ conv.input <= 17 => conv.output \in AllImageTypes /\ Code(conv.output) = conv.input
\* Xbm, the type of the last code, was encoded and decoded.
C34_Witness ==
    /\ conv.op = "bincode"
    /\ conv.input = "Xbm"
    /\ conv.output = "Xbm"

\* C39: the name of every image type parses back to the type: from_str
\* after as_str succeeds and gives the type it was given.
C39_NameRoundTrip ==
    conv.op = "serde" =>
        /\ conv.output.ok
        /\ conv.output.value = conv.input

\* The second that the last four bytes of a key spell.
SecondOf(k) ==
    [hi |-> k[Len(k) - 3] * Byte + k[Len(k) - 2],
     lo |-> k[Len(k) - 1] * Byte + k[Len(k)], sub |-> 0]
\* A row whose key and value both decode.
Decodable(k) ==
    /\ Len(k) >= 5
    /\ IsUtf8(SubSeq(k, 1, Len(k) - 5))
    /\ Len(idb[k]) = 17
    /\ idb[k][17] <= 17
\* A failure and its time, a download and what it carries.
FailureAt(k) ==
    [kind |-> "Failed", timestamp |-> SecondOf(k), digest |-> <<>>,
     image_type |-> NoImageType]
SuccessAt(k) ==
    [kind |-> "Entry", timestamp |-> SecondOf(k), digest |-> SubSeq(idb[k], 1, 16),
     image_type |-> FromCode(idb[k][17])]
\* The rows of a url that decode.
DecodableOf(u) == {k \in KeysOf(u) : Decodable(k)}

Latest(ks) == CHOOSE k \in ks : \A j \in ks : ~TimeLess(SecondOf(k), SecondOf(j))
\* C32: when every row stored under the url decodes, lookup_status gives
\* Downloaded with the latest download if the url has a row of a download,
\* Failed with the time of the latest failure if it has rows and all are
\* failures, and Downloading if it has no row.
C32_SuccessOverFailure ==
    (looked.op = "lookup_status" /\ \A k \in KeysOf(looked.url) : Decodable(k)) =>
        LET ks == KeysOf(looked.url)
            downloads == {k \in ks : idb[k][17] # 0}
        IN IF downloads # {}
           THEN /\ looked.status.kind = "Downloaded"
                /\ looked.status.entry = SuccessAt(Latest(downloads))
           ELSE IF ks # {}
           THEN /\ looked.status.kind = "Failed"
                /\ looked.status.timestamp = SecondOf(Latest(ks))
           ELSE looked.status.kind = "Downloading"

\* C33: iter() yields one item for each row, in the order of the keys: an
\* error for a row that does not decode (InvalidKeyBytes for a malformed
\* key, a decoding error or ExtraValueBytes for a malformed value), and the
\* url and the outcome of every row that decodes.
C33_IterErrorsPerRow ==
    looked.op = "iter" =>
        /\ Len(looked.rows) = Cardinality(DOMAIN idb)
        /\ \A i \in 1..Len(looked.rows) :
               LET row == looked.rows[i]
                   k == IteratorStart[i]
               IN /\ Cardinality({j \in DOMAIN idb : KeyLess(j, k)}) = i - 1
                  /\ row.ok <=> Decodable(k)
                  /\ row.ok =>
                         /\ row.url = SubSeq(k, 1, Len(k) - 5)
                         /\ row.outcome = IF idb[k][17] = 0 THEN FailureAt(k)
                                          ELSE SuccessAt(k)
                  /\ ~row.ok =>
                         row.error \in {"InvalidKeyBytes", "Decode", "ExtraValueBytes"}
\* iter() over three rows: the first did not decode, and the two after it
\* were yielded decoded.
C33_Witness ==
    /\ looked.op = "iter"
    /\ Len(looked.rows) = 3
    /\ ~looked.rows[1].ok
    /\ looked.rows[2].ok
    /\ looked.rows[3].ok

\* C38: lookup(url) returns Ok whenever every row stored under the url
\* decodes, whatever the other rows are.
C38_LookupIgnoresOtherRows ==
    (looked.op = "lookup" /\ \A k \in KeysOf(looked.url) : Decodable(k)) => looked.ok

\* C35: `list` with --validate prints only blobs whose bytes it has read
\* and found to match their names, and does not end successfully on a store
\* with a blob whose bytes do not match; without --validate it reads the
\* bytes of no file.
C35_ValidateFlag ==
    listed.called =>
        IF listed.validate
        THEN /\ \A i \in 1..Len(listed.printed) :
                    /\ listed.printed[i] \in listed.read
                    /\ Md5(files[listed.printed[i]]) = FromHex(FileName(listed.printed[i]))
             /\ (\E q \in DOMAIN files :
                     /\ PathToEntry(q).kind = "Entry"
                     /\ Md5(files[q]) # FromHex(FileName(q))) => listed.exit # "Ok"
        ELSE listed.read = {}

\* The files and directories at or below the paths that wait on the stack.
Pending ==
    {q \in dirs \cup DOMAIN files \cup {Base} :
        \E i \in 1..Len(iter.stack) : \E j \in 1..Len(iter.stack[i]) :
            /\ Len(iter.stack[i][j]) <= Len(q)
            /\ SubSeq(q, 1, Len(iter.stack[i][j])) = iter.stack[i][j]}
\* C40: a walk yields finitely many items: the items yielded so far and
\* the files and directories still waiting on the stack are together no
\* more than the tree holds, a walk that has ended has yielded no more items
\* than the tree holds, and next() on the empty stack returns None and
\* leaves the stack empty.
C40_EnumerationTerminates ==
    /\ Len(yielded) + Cardinality(Pending) <= Cardinality(dirs \cup DOMAIN files) + 1
    /\ \A r \in 1..Len(runs) : Len(runs[r]) <= Cardinality(dirs \cup DOMAIN files)
    /\ iter.stack = <<>> =>
           \A level \in {NoLevel} \cup 0..Len(prefix_part_lengths) :
               /\ EntriesNextRec(iter.stack, level).item = NoItem
               /\ EntriesNextRec(iter.stack, level).stack = <<>>
\* A walk over a tree with a malformed name has ended: it yielded an error
\* item and an entry, and nothing is left on the stack.
C40_Witness ==
    /\ runs # <<>>
    /\ iter.stack = <<>>
    /\ yielded = <<>>
    /\ \E i \in 1..Len(runs[1]) : IsError(runs[1][i])
    /\ \E i \in 1..Len(runs[1]) : runs[1][i].kind = "Entry"

\* Another save of the same bytes is under way or has returned.
SavedByAnother(p) ==
    \/ \E q \in Savers \ {p} : SaveInProgress(q) /\ sbytes[q] = sbytes[p]
    \/ \E r \in returned : r.bytes = sbytes[p]
\* C37: a save() that failed with an I/O error on a store without the
\* bytes, and that no other save of them accompanied, has left no file at
\* the path of their digest; and a save() that ran alone and returned
\* Found has found the complete bytes there.
C37_FailedSaveLeavesNoFile ==
    /\ \A p \in Savers :
           (/\ spc[p] = "failed"
            /\ ~existedAtBegin[p]
            /\ p \notin overlap
            /\ ~SavedByAnother(p)) => ~IsFile(sresult[p].path)
    /\ \A p \in Savers :
           (/\ spc[p] = "done"
            /\ sresult[p].action = "Found"
            /\ p \notin overlap) => files[sresult[p].path] = sbytes[p]

\* C36: every request() call that is suspended, on the full queue or on its
\* reply, is resolved in the end: with the fetch result, with a
\* ChannelError, or by being dropped by its caller.
C36_RequestsResolve ==
    \A c \in Callers :
        (cpc[c] \in {"blocked", "waiting"}) ~> (cpc[c] \in {"done", "abandoned"})
\* One call was suspended on the full queue and got ChannelError::Send when
\* the worker closed the channel; another was enqueued behind the sentinel
\* and got ChannelError::Receive when the worker ended.
C36_Witness ==
    \E c, d \in Callers :
        /\ c \in suspended /\ cres[c] = "SendError"
        /\ d \in acceptedLate /\ cres[d] = "RecvError"

====
